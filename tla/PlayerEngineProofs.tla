------------------------- MODULE PlayerEngineProofs -------------------------
(***************************************************************************)
(* For any tracks, pages, volumes and lengths of a crossfade: the player's *)
(* engine plays what is wanted, on one element at a time, with the next    *)
(* track waiting in the other and at the volume that was set; and it keeps *)
(* the order PlayOrder promises.                                           *)
(*                                                                         *)
(* The methods are operators on the engine's record, so the proof is about *)
(* them: each is shown once to keep Good, and the actions cite that.       *)
(***************************************************************************)
EXTENDS PlayerEngine, FiniteSetTheorems, SequenceTheorems, WellFoundedInduction, TLAPS

Engines == [queue : Seq(Tracks), index : Int, el : [Elements -> Element],
            active : Elements, standbyFor : Int, volume : Volumes, crossfade : BOOLEAN,
            fade : [to : {0, 1, 2}, step : Nat], askedMore : BOOLEAN,
            wantPlaying : BOOLEAN, shown : BOOLEAN, attached : BOOLEAN,
            asks : BOOLEAN, changed : BOOLEAN]

\* The parts of the invariant, of any record e: the properties of PlayerEngine,
\* and that a crossfade is not past its end and ends with dispose().
Located(e) == e.index \in -1 .. Len(e.queue)
Plays(e) ==
    HasCurrent(e) =>
        /\ e.el[e.active].src = Current(e)
        /\ e.attached /\ e.wantPlaying => e.el[e.active].run # "paused"
One(e) ==
    /\ ~Fading(e) => e.el[Standby(e)].run # "playing"
    /\ ~e.attached => ~Fading(e) /\ e.el[e.active].run # "playing"
Waits(e) ==
    e.standbyFor # -1 =>
        /\ ~Fading(e)
        /\ e.standbyFor \in 0 .. Len(e.queue) - 1
        /\ e.el[Standby(e)].src = e.queue[e.standbyFor + 1]
Follows(e) == e.standbyFor # -1 => e.standbyFor = e.index + 1
Ramps(e) ==
    IF Fading(e) THEN e.fade.to = e.active /\ e.fade.step < FadeSteps
                 ELSE e.el[e.active].vol = e.volume

\* What a method needs that starts a track, and what every method keeps.
Ready(e) == e \in Engines /\ One(e) /\ Waits(e) /\ Ramps(e)
Good(e) == Ready(e) /\ Located(e) /\ Plays(e) /\ Follows(e)

\* What an element of r, e's successor, sounds, it sounded in e;
\* or it is r's current track.
Quieter(e, r) ==
    \A i \in Elements : r.el[i].run = "playing" =>
        e.el[i].run = "playing" /\ r.el[i].src = e.el[i].src
Begins(e, r) ==
    \A i \in Elements : r.el[i].run = "playing" =>
        \/ e.el[i].run = "playing" /\ r.el[i].src = e.el[i].src
        \/ HasCurrent(r) /\ r.el[i].src = Current(r)

\* What most methods leave alone.
Keeps(e, r) ==
    /\ r.queue = e.queue /\ r.index = e.index /\ r.active = e.active /\ r.volume = e.volume
    /\ r.wantPlaying = e.wantPlaying /\ r.attached = e.attached

-----------------------------------------------------------------------------
(* The elements *)

LEMMA OtherOne == \A i \in Elements : Other(i) \in Elements /\ Other(i) # i /\ Other(Other(i)) = i
BY DEF Elements, Other

LEMMA OnElements ==
    ASSUME NEW a \in Element, NEW ok \in BOOLEAN
    PROVE  /\ Paused(a) \in Element /\ Begun(a, ok) \in Element
           /\ Paused(a).src = a.src /\ Begun(a, ok).src = a.src
           /\ Paused(a).vol = a.vol /\ Begun(a, ok).vol = a.vol
           /\ Paused(a).run # "playing"
           /\ ok => Begun(a, ok).run # "paused"
           /\ Begun(a, FALSE) = a
BY DEF Element, Paused, Begun

LEMMA OnSource ==
    ASSUME NEW a \in Element, NEW t \in Tracks \cup {NoTrack}
    PROVE  /\ Sourced(a, t) \in Element /\ Sourced(a, t).src = t
           /\ Sourced(a, t).run = "paused" /\ Sourced(a, t).vol = a.vol
BY EngineConstants DEF Element, Sourced

-----------------------------------------------------------------------------
(* The methods *)

LEMMA StopFadeGood ==
    ASSUME NEW e, e \in Engines, One(e), Waits(e), ~Fading(e) => Ramps(e)
    PROVE  /\ Ready(StopFade(e)) /\ ~Fading(StopFade(e))
           /\ Keeps(e, StopFade(e)) /\ StopFade(e).standbyFor = e.standbyFor
           /\ Quieter(e, StopFade(e))
           /\ StopFade(e).el[e.active].src = e.el[e.active].src
           /\ StopFade(e).el[e.active].run = e.el[e.active].run
<1>1. CASE ~Fading(e)
  BY <1>1 DEF StopFade, Ready, Engines, Fading, Quieter, Keeps
<1>2. CASE Fading(e)
  <2> DEFINE s == StopFade(e)
  <2>1. /\ e \in Engines /\ e.active \in Elements /\ e.el \in [Elements -> Element]
        /\ e.volume \in Nat
    BY EngineConstants DEF Ready, Engines
  <2> DEFINE x == [e.el EXCEPT ![Standby(e)] = Paused(@), ![e.active].vol = e.volume]
  <2>2. Standby(e) \in Elements /\ Standby(e) # e.active
    BY <2>1, OtherOne DEF Standby
  <2>3. x \in [Elements -> Element]
    BY <2>1, <2>2 DEF Paused, Element
  <2>4. x[Standby(e)] = Paused(e.el[Standby(e)])
    BY <2>1, <2>2
  <2>5. x[e.active] = [e.el[e.active] EXCEPT !.vol = e.volume]
    BY <2>1, <2>2
  <2>6. /\ x[e.active].src = e.el[e.active].src
        /\ x[e.active].run = e.el[e.active].run
        /\ x[e.active].vol = e.volume
    BY <2>1, <2>5 DEF Element
  <2>7. x[Standby(e)].src = e.el[Standby(e)].src /\ x[Standby(e)].run # "playing"
    BY <2>1, <2>2, <2>4 DEF Paused, Element
  <2> HIDE DEF x
  <2>8. s = [e EXCEPT !.fade = NoFade, !.el = x]
    BY <1>2 DEF StopFade, x
  <2> HIDE DEF s
  <2>9. s \in Engines /\ s.el = x /\ s.fade = NoFade
    <3>1. s \in Engines
      BY <2>1, <2>3, <2>8 DEF Engines, NoFade
    <3>2. s.el = x /\ s.fade = NoFade
      BY <2>1, <2>3, <2>8 DEF Engines
    <3> QED BY <3>1, <3>2
  <2>10. /\ s.queue = e.queue /\ s.index = e.index /\ s.active = e.active
         /\ s.standbyFor = e.standbyFor /\ s.volume = e.volume /\ s.attached = e.attached
         /\ s.wantPlaying = e.wantPlaying
    BY <2>1, <2>8 DEF Engines
  <2>11. Keeps(e, s)
    BY <2>10 DEF Keeps
  <2>12. \A i \in Elements : i = e.active \/ i = Standby(e)
    BY <2>1, <2>2 DEF Elements
  <2>13. Standby(s) = Standby(e) /\ ~Fading(s)
    BY <2>9, <2>10 DEF Standby, Fading
  <2>14. Ready(s)
    BY <1>2, <2>6, <2>7, <2>9, <2>10, <2>13 DEF Ready, One, Waits, Ramps
  <2>15. Quieter(e, s)
    BY <2>6, <2>7, <2>9, <2>12 DEF Quieter
  <2> QED
    BY <2>6, <2>9, <2>10, <2>11, <2>13, <2>14, <2>15 DEF s
<1> QED BY <1>1, <1>2

\* The fields the invariant is about.
Same(e, r) ==
    /\ r.queue = e.queue /\ r.index = e.index /\ r.el = e.el /\ r.active = e.active
    /\ r.standbyFor = e.standbyFor /\ r.volume = e.volume /\ r.fade = e.fade
    /\ r.wantPlaying = e.wantPlaying /\ r.attached = e.attached

LEMMA SameGood ==
    ASSUME NEW e, NEW r, Good(e), r \in Engines, Same(e, r)
    PROVE  Good(r)
BY DEF Good, Ready, Located, One, Waits, Ramps, Plays, Follows, Same, HasCurrent, Current, Fading, Standby

LEMMA CheckMoreGood ==
    ASSUME NEW e, Good(e)
    PROVE  Good(CheckMore(e)) /\ Same(e, CheckMore(e))
<1> DEFINE r == CheckMore(e)
<1>1. e \in Engines
  BY DEF Good, Ready
<1>2. r \in Engines
  BY <1>1 DEF CheckMore, Engines
<1>3. Same(e, r)
  BY <1>1 DEF CheckMore, Engines, Same
<1> QED BY <1>2, <1>3, SameGood

LEMMA PreloadNextGood ==
    ASSUME NEW e, Good(e)
    PROVE  LET r == PreloadNext(e)
           IN  /\ Good(r) /\ Quieter(e, r)
               /\ Keeps(e, r) /\ r.fade = e.fade
               /\ ~Fading(e) /\ e.index + 1 < Len(e.queue) => r.standbyFor = e.index + 1
<1> DEFINE r == PreloadNext(e)
           n == e.index + 1
<1>1. /\ e \in Engines /\ e.active \in Elements /\ e.el \in [Elements -> Element]
      /\ e.queue \in Seq(Tracks) /\ e.index \in -1 .. Len(e.queue) /\ n \in Nat
  BY DEF Good, Ready, Located, Engines
<1>2. CASE n >= Len(e.queue) \/ e.standbyFor = n \/ Fading(e)
  <2>1. r = e
    BY <1>2 DEF PreloadNext
  <2>2. ~Fading(e) /\ n < Len(e.queue) => e.standbyFor = n
    BY <1>1, <1>2
  <2> QED BY <2>1, <2>2 DEF Quieter, Keeps
<1>3. CASE ~(n >= Len(e.queue) \/ e.standbyFor = n \/ Fading(e))
  <2> DEFINE x == [e.el EXCEPT ![Standby(e)] = Sourced(@, e.queue[n + 1])]
  <2>1. Standby(e) \in Elements /\ Standby(e) # e.active
    BY <1>1, OtherOne DEF Standby
  <2>2. e.queue[n + 1] \in Tracks
    BY <1>1, <1>3
  <2>3. /\ x \in [Elements -> Element] /\ x[e.active] = e.el[e.active]
        /\ x[Standby(e)].src = e.queue[n + 1] /\ x[Standby(e)].run = "paused"
    <3> DEFINE b == Sourced(e.el[Standby(e)], e.queue[n + 1])
    <3>1. b \in Element /\ b.src = e.queue[n + 1] /\ b.run = "paused"
      BY <1>1, <2>1, <2>2, OnSource
    <3>2. x = [e.el EXCEPT ![Standby(e)] = b]
      OBVIOUS
    <3> HIDE DEF b, x
    <3> QED BY <1>1, <2>1, <3>1, <3>2
  <2> HIDE DEF x
  <2>4. r = [e EXCEPT !.el = x, !.standbyFor = n]
    <3>1. r = [e EXCEPT !.el[Standby(e)] = Sourced(@, e.queue[n + 1]), !.standbyFor = n]
      BY <1>3 DEF PreloadNext
    <3> QED BY <3>1 DEF x
  <2> HIDE DEF r
  <2>5. r \in Engines
    <3>1. e \in Engines /\ n \in Int
      BY <1>1
    <3> HIDE DEF n
    <3> QED BY <3>1, <2>3, <2>4 DEF Engines
  <2>6. /\ r.el = x /\ r.standbyFor = n /\ r.queue = e.queue /\ r.index = e.index
        /\ r.active = e.active /\ r.volume = e.volume /\ r.fade = e.fade
        /\ r.attached = e.attached /\ r.wantPlaying = e.wantPlaying
    BY <1>1, <2>3, <2>4 DEF Engines
  <2>7. Standby(r) = Standby(e) /\ ~Fading(r)
    BY <1>3, <2>6 DEF Standby, Fading
  <2>8. Good(r)
    BY <1>1, <1>3, <2>3, <2>5, <2>6, <2>7
    DEF Good, Ready, Located, One, Waits, Ramps, Plays, Follows, HasCurrent, Current, Fading
  <2>9. Quieter(e, r)
    BY <1>1, <2>1, <2>3, <2>6 DEF Quieter, Elements
  <2>10. Keeps(e, r)
    BY <2>6 DEF Keeps
  <2>11. r.standbyFor = e.index + 1 /\ r.fade = e.fade
    BY <2>6
  <2> QED BY <2>8, <2>9, <2>10, <2>11 DEF r
<1> QED BY <1>2, <1>3

LEMMA CueTyped ==
    ASSUME NEW e \in Engines, NEW k \in Int, NEW on \in Elements, NEW m \in Int,
           NEW x \in [Elements -> Element], NEW w \in BOOLEAN
    PROVE  [e EXCEPT !.index = k, !.active = on, !.standbyFor = m,
                     !.shown = w, !.changed = TRUE, !.el = x] \in Engines
BY DEF Engines

LEMMA CueReady ==
    ASSUME NEW e, Ready(e), e.attached, NEW k \in 0 .. Len(e.queue) - 1
    PROVE  LET c == Cue(e, k)
           IN  /\ Ready(c) /\ Quieter(e, c)
               /\ c.queue = e.queue /\ c.index = k /\ c.standbyFor = -1 /\ c.fade = e.fade
               /\ c.wantPlaying = e.wantPlaying /\ c.attached
               /\ c.el[c.active].src = Current(c)
<1> DEFINE c == Cue(e, k)
           preloaded == e.standbyFor = k
           on == IF preloaded THEN Standby(e) ELSE e.active
           cued == IF preloaded THEN e.el[on] ELSE Sourced(e.el[on], e.queue[k + 1])
           left == IF preloaded THEN Paused(e.el[Other(on)]) ELSE e.el[Other(on)]
           x == [i \in Elements |-> IF i = on THEN [cued EXCEPT !.vol = e.volume] ELSE left]
<1>1. /\ e \in Engines /\ e.active \in Elements /\ e.el \in [Elements -> Element]
      /\ e.queue \in Seq(Tracks) /\ e.volume \in Nat /\ k \in Int
      /\ k \in -1 .. Len(e.queue) /\ e.queue[k + 1] \in Tracks
  <2>1. /\ e \in Engines /\ e.active \in Elements /\ e.el \in [Elements -> Element]
        /\ e.queue \in Seq(Tracks) /\ e.volume \in Nat
    BY EngineConstants DEF Ready, Engines
  <2> QED BY <2>1
<1>2. /\ Standby(e) \in Elements /\ Standby(e) # e.active /\ Other(Standby(e)) = e.active
      /\ Other(e.active) = Standby(e)
  BY <1>1, OtherOne DEF Standby
<1>3. on \in Elements /\ Other(on) \in Elements /\ on # Other(on)
  BY <1>1, <1>2
<1>4. /\ cued \in Element /\ cued.src = e.queue[k + 1]
      /\ cued.run = "playing" => e.el[on].run = "playing" /\ e.el[on].src = cued.src
  <2>1. CASE preloaded
    BY <2>1, <1>1, <1>2 DEF Ready, Waits
  <2>2. CASE ~preloaded
    BY <2>2, <1>1, <1>2, OnSource
  <2> QED BY <2>1, <2>2
<1>5. /\ left \in Element /\ left.src = e.el[Other(on)].src
      /\ left.run = "playing" => e.el[Other(on)].run = "playing"
      /\ ~Fading(e) => left.run # "playing"
  <2>1. CASE preloaded
    BY <2>1, <1>1, <1>2, OnElements
  <2>2. CASE ~preloaded
    BY <2>2, <1>1, <1>2 DEF Ready, One
  <2> QED BY <2>1, <2>2
<1>6. Fading(e) => on = e.active
  BY <1>1 DEF Ready, Waits
<1> HIDE DEF cued, left
<1>7. /\ x \in [Elements -> Element] /\ x[Other(on)] = left
      /\ x[on].src = cued.src /\ x[on].run = cued.run /\ x[on].vol = e.volume
  <2>1. [cued EXCEPT !.vol = e.volume] \in Element
    BY <1>1, <1>4 DEF Element
  <2>2. x \in [Elements -> Element] /\ x[Other(on)] = left
    BY <1>3, <1>5, <2>1
  <2>3. x[on] = [cued EXCEPT !.vol = e.volume]
    BY <1>3
  <2> QED BY <1>4, <2>2, <2>3 DEF Element
<1>8. c = [e EXCEPT !.index = k, !.active = on, !.standbyFor = -1,
                    !.shown = e.wantPlaying, !.changed = TRUE, !.el = x]
  BY Zenon DEF Cue, cued, left
<1> HIDE DEF x, on, c
<1>9. c \in Engines
  <2>1. -1 \in Int /\ e.wantPlaying \in BOOLEAN
    BY <1>1 DEF Engines
  <2> QED BY <1>1, <1>3, <1>7, <1>8, <2>1, CueTyped
<1>10. /\ c.queue = e.queue /\ c.index = k /\ c.active = on /\ c.standbyFor = -1
       /\ c.fade = e.fade /\ c.wantPlaying = e.wantPlaying /\ c.attached = e.attached
       /\ c.volume = e.volume /\ c.el = x
  BY <1>1, <1>3, <1>7, <1>8 DEF Engines
<1>11. /\ Standby(c) = Other(on) /\ (Fading(c) <=> Fading(e))
       /\ Current(c) = e.queue[k + 1]
  BY <1>10 DEF Standby, Fading, Current
<1>12. Ready(c)
  BY <1>1, <1>5, <1>6, <1>7, <1>9, <1>10, <1>11 DEF Ready, One, Waits, Ramps
<1>13. \A i \in Elements : i = on \/ i = Other(on)
  BY <1>3 DEF Elements
<1>14. Quieter(e, c)
  BY <1>4, <1>5, <1>7, <1>10, <1>13 DEF Quieter
<1> QED BY <1>4, <1>7, <1>10, <1>11, <1>12, <1>14 DEF c

\* The current track sits on the active element, whether it plays or not.
Holds(e) == HasCurrent(e) => e.el[e.active].src = Current(e)

LEMMA PlayGood ==
    ASSUME NEW e, Ready(e), Follows(e), Holds(e), HasCurrent(e), e.attached, NEW ok \in BOOLEAN
    PROVE  LET r == Play(e, ok)
           IN  /\ Good(r) /\ Begins(e, r)
               /\ r.queue = e.queue /\ r.index = e.index /\ r.standbyFor = e.standbyFor
               /\ r.fade = e.fade /\ r.attached = e.attached
<1> DEFINE r == Play(e, ok)
           x == [e.el EXCEPT ![e.active] = Begun(@, ok)]
<1>1. /\ e \in Engines /\ e.active \in Elements /\ e.el \in [Elements -> Element]
  BY DEF Ready, Engines
<1>2. Standby(e) \in Elements /\ Standby(e) # e.active
  BY <1>1, OtherOne DEF Standby
<1>3. /\ x \in [Elements -> Element] /\ x[Standby(e)] = e.el[Standby(e)]
      /\ x[e.active].src = e.el[e.active].src /\ x[e.active].vol = e.el[e.active].vol
      /\ ok => x[e.active].run # "paused"
      /\ ~ok => x[e.active] = e.el[e.active]
  BY <1>1, <1>2, OnElements
<1> HIDE DEF x
<1>4. r = [e EXCEPT !.wantPlaying = ok, !.shown = ok, !.el = x]
  BY DEF Play, x
<1> HIDE DEF r
<1>5. r \in Engines
  BY <1>1, <1>3, <1>4 DEF Engines
<1>6. /\ r.queue = e.queue /\ r.index = e.index /\ r.active = e.active
      /\ r.standbyFor = e.standbyFor /\ r.volume = e.volume /\ r.fade = e.fade
      /\ r.attached = e.attached /\ r.wantPlaying = ok /\ r.el = x
  BY <1>1, <1>3, <1>4 DEF Engines
<1>7. /\ Standby(r) = Standby(e) /\ (Fading(r) <=> Fading(e))
      /\ (HasCurrent(r) <=> HasCurrent(e)) /\ Current(r) = Current(e)
  BY <1>6 DEF Standby, Fading, HasCurrent, Current
<1>9. Good(r)
  BY <1>1, <1>3, <1>5, <1>6, <1>7
  DEF Good, Ready, Located, One, Waits, Ramps, Plays, Follows, Holds, HasCurrent
<1>10. \A i \in Elements : i = e.active \/ i = Standby(e)
  BY <1>1, <1>2 DEF Elements
<1>11. Begins(e, r)
  BY <1>3, <1>6, <1>7, <1>10 DEF Begins, Holds
<1> QED BY <1>6, <1>9, <1>11 DEF r

LEMMA StartGood ==
    ASSUME NEW e, Ready(e), e.attached, NEW i \in Nat, NEW autoplay \in BOOLEAN, NEW ok \in BOOLEAN,
           i >= Len(e.queue) => e.standbyFor = -1,
           e.wantPlaying => autoplay
    PROVE  LET r == Start(e, i, autoplay, ok)
           IN  /\ Good(r) /\ Begins(e, r)
               /\ r.queue = e.queue /\ r.index = (IF i >= Len(e.queue) THEN Len(e.queue) ELSE i)
               /\ r.fade = e.fade /\ r.attached
<1> DEFINE r == Start(e, i, autoplay, ok)
<1>1. e \in Engines /\ Len(e.queue) \in Nat
  BY DEF Ready, Engines
<1>2. CASE i >= Len(e.queue)
  <2>1. r = [e EXCEPT !.index = Len(e.queue), !.wantPlaying = autoplay, !.asks = TRUE]
    BY <1>2 DEF Start
  <2> HIDE DEF r
  <2>2. r \in Engines
    <3> DEFINE n == Len(e.queue)
    <3>1. n \in Int
      BY <1>1
    <3> HIDE DEF n
    <3>2. [e EXCEPT !.index = n, !.wantPlaying = autoplay, !.asks = TRUE] \in Engines
      BY <1>1, <3>1 DEF Engines
    <3> QED BY <2>1, <3>2 DEF n
  <2>3. /\ r.queue = e.queue /\ r.index = Len(e.queue) /\ r.active = e.active /\ r.el = e.el
        /\ r.standbyFor = e.standbyFor /\ r.volume = e.volume /\ r.fade = e.fade
        /\ r.attached = e.attached
    BY <1>1, <2>1 DEF Engines
  <2>4. ~HasCurrent(r) /\ Standby(r) = Standby(e) /\ (Fading(r) <=> Fading(e))
    BY <1>1, <2>3 DEF HasCurrent, Standby, Fading
  <2>5. Good(r)
    BY <1>1, <1>2, <2>2, <2>3, <2>4 DEF Good, Ready, Located, One, Waits, Ramps, Plays, Follows
  <2>6. Begins(e, r)
    BY <2>3 DEF Begins
  <2> QED BY <1>2, <2>3, <2>5, <2>6 DEF r
<1>3. CASE ~(i >= Len(e.queue))
  <2> DEFINE c == Cue(e, i)
             p == IF autoplay THEN Play(c, ok) ELSE c
             q == PreloadNext(p)
  <2>1. i \in 0 .. Len(e.queue) - 1 /\ (IF i > 0 THEN i ELSE 0) = i
    BY <1>1, <1>3
  <2>2. r = CheckMore(q)
    BY <1>3, <2>1 DEF Start
  <2>3. /\ Ready(c) /\ Quieter(e, c)
        /\ c.queue = e.queue /\ c.index = i /\ c.standbyFor = -1 /\ c.fade = e.fade
        /\ c.wantPlaying = e.wantPlaying /\ c.attached
        /\ c.el[c.active].src = Current(c)
    BY <2>1, CueReady
  <2>4. HasCurrent(c) /\ Holds(c) /\ Follows(c) /\ Located(c)
    BY <1>1, <2>1, <2>3 DEF HasCurrent, Holds, Follows, Located
  <2> HIDE DEF c
  <2>5. /\ Good(p) /\ p.queue = e.queue /\ p.index = i /\ p.fade = e.fade /\ p.attached
        /\ Begins(c, p)
    <3>1. CASE autoplay
      BY <3>1, <2>3, <2>4, PlayGood
    <3>2. CASE ~autoplay
      BY <3>2, <2>3, <2>4 DEF Good, Plays, Holds, Begins
    <3> QED BY <3>1, <3>2
  <2> HIDE DEF p
  <2>6. Good(q) /\ Quieter(p, q) /\ Keeps(p, q) /\ q.fade = e.fade
    BY <2>5, PreloadNextGood
  <2> HIDE DEF q
  <2>7. Good(r) /\ Same(q, r)
    BY <2>2, <2>6, CheckMoreGood
  <2> HIDE DEF r
  <2>8. /\ r.queue = e.queue /\ r.index = i /\ r.fade = e.fade /\ r.attached /\ r.el = q.el
    BY <2>5, <2>6, <2>7 DEF Keeps, Same
  <2>9. (HasCurrent(r) <=> HasCurrent(p)) /\ Current(r) = Current(p)
    BY <2>5, <2>8 DEF HasCurrent, Current
  <2>10. Begins(e, r)
    BY <2>3, <2>5, <2>6, <2>8, <2>9 DEF Begins, Quieter
  <2> QED BY <1>3, <2>7, <2>8, <2>10 DEF r
<1> QED BY <1>2, <1>3

LEMMA AdvanceGood ==
    ASSUME NEW e, Ready(e), Located(e), Follows(e), e.attached, NEW ok \in BOOLEAN
    PROVE  LET r == Advance(e, ok)
           IN  /\ Good(r) /\ Begins(e, r)
               /\ r.queue = e.queue /\ r.index \in {e.index, e.index + 1}
               /\ r.fade = e.fade /\ r.attached
<1>1. /\ e \in Engines /\ Len(e.queue) \in Nat /\ e.index \in -1 .. Len(e.queue)
      /\ e.wantPlaying \in BOOLEAN
  BY DEF Ready, Engines, Located
<1>2. CASE RanOut(e)
  BY <1>1, <1>2 DEF Advance, RanOut, Good, Plays, HasCurrent, Begins
<1>3. CASE ~RanOut(e)
  <2>1. e.index + 1 \in Nat /\ e.index + 1 <= Len(e.queue)
    BY <1>1, <1>3 DEF RanOut
  <2>2. e.index + 1 >= Len(e.queue) => e.standbyFor = -1
    BY <1>1 DEF Ready, Waits, Follows
  <2>3. Advance(e, ok) = Start(e, e.index + 1, e.wantPlaying, ok)
    BY <1>3 DEF Advance
  <2>4. LET r == Start(e, e.index + 1, e.wantPlaying, ok)
        IN  /\ Good(r) /\ Begins(e, r)
            /\ r.queue = e.queue
            /\ r.index = (IF e.index + 1 >= Len(e.queue) THEN Len(e.queue) ELSE e.index + 1)
            /\ r.fade = e.fade /\ r.attached
    BY <1>1, <2>1, <2>2, StartGood
  <2> QED BY <1>1, <2>1, <2>3, <2>4
<1> QED BY <1>2, <1>3

-----------------------------------------------------------------------------
(* Lists of tracks *)

\* A list has all its tracks in Without, but those dropped, and no other.
LEMMA WithoutType ==
    ASSUME NEW s \in Seq(Tracks), NEW drop
    PROVE  Without(s, drop) \in Seq(Tracks \ drop)
<1> DEFINE kept == {k \in DOMAIN s : s[k] \notin drop}
           upTo(k) == {m \in kept : m <= k}
           n == Cardinality(kept)
           f == [k \in kept |-> Cardinality(upTo(k))]
<1>1. DOMAIN s = 1 .. Len(s) /\ Len(s) \in Nat
  OBVIOUS
<1>2. IsFiniteSet(1 .. Len(s))
  BY <1>1, FS_Interval
<1>3. IsFiniteSet(kept) /\ n \in Nat
  BY <1>1, <1>2, FS_Subset, FS_CardinalityType
<1>4. kept \subseteq Int
  BY <1>1
<1>5. ASSUME NEW k \in kept
      PROVE  IsFiniteSet(upTo(k)) /\ Cardinality(upTo(k)) \in 1 .. n
  <2>1. IsFiniteSet(upTo(k)) /\ Cardinality(upTo(k)) <= n /\ Cardinality(upTo(k)) \in Nat
    BY <1>3, FS_Subset, FS_CardinalityType
  <2>2. k \in upTo(k)
    BY <1>4
  <2>3. Cardinality(upTo(k)) # 0
    BY <2>1, <2>2, FS_EmptySet
  <2> QED BY <1>3, <2>1, <2>3
<1>6. ASSUME NEW k \in kept, NEW m \in kept, k < m
      PROVE  f[k] # f[m]
  <2>1. upTo(k) \in SUBSET upTo(m)
    BY <1>4, <1>6
  <2>2. m \in upTo(m) /\ m \notin upTo(k)
    BY <1>4, <1>6
  <2>3. Cardinality(upTo(k)) # Cardinality(upTo(m))
    BY <1>5, <2>1, <2>2, FS_Subset
  <2> QED BY <2>3
<1>7. f \in Injection(kept, 1 .. n)
  <2>1. f \in [kept -> 1 .. n]
    BY <1>5
  <2>2. ASSUME NEW k \in kept, NEW m \in kept, f[k] = f[m] PROVE k = m
    <3>1. k \in Int /\ m \in Int
      BY <1>4
    <3>2. CASE k < m
      BY <1>6, <2>2, <3>2
    <3>3. CASE m < k
      BY <1>6, <2>2, <3>3
    <3> QED BY <3>1, <3>2, <3>3
  <2> QED BY <2>1, <2>2 DEF Injection, IsInjective
<1>8. f \in Surjection(kept, 1 .. n)
  <2>1. IsFiniteSet(1 .. n) /\ Cardinality(1 .. n) = n
    BY <1>3, FS_Interval
  <2> QED BY <1>7, <2>1, FS_Injection
<1>9. \A j \in 1 .. n : \E k \in kept : f[k] = j
  BY <1>8 DEF Surjection
<1>10. \A j \in 1 .. n : s[CHOOSE k \in kept : Cardinality(upTo(k)) = j] \in Tracks \ drop
  <2> TAKE j \in 1 .. n
  <2>1. \E k \in kept : Cardinality(upTo(k)) = j
    BY <1>9
  <2> DEFINE w == CHOOSE k \in kept : Cardinality(upTo(k)) = j
  <2>2. w \in kept
    BY <2>1
  <2> HIDE DEF w
  <2>3. s[w] \in Tracks \ drop
    BY <1>1, <2>2
  <2> QED BY <2>3 DEF w
<1>11. Without(s, drop) = [j \in 1 .. n |-> s[CHOOSE k \in kept : Cardinality(upTo(k)) = j]]
  BY Zenon DEF Without
<1> HIDE DEF n
<1>12. Without(s, drop) \in [1 .. n -> Tracks \ drop]
  BY <1>10, <1>11
<1>13. n \in Nat
  BY <1>3 DEF n
<1> DEFINE T == Tracks \ drop
           r == Without(s, drop)
<1> HIDE DEF T, r
<1>14. ASSUME r \in [1 .. n -> T] PROVE r \in Seq(T)
  BY <1>13, <1>14
<1> QED BY <1>12, <1>14 DEF T, r

\* splice(i, 1).
LEMMA SpliceFacts ==
    ASSUME NEW s \in Seq(Tracks), NEW i \in 0 .. Len(s) - 1
    PROVE  LET r == SubSeq(s, 1, i) \o SubSeq(s, i + 2, Len(s))
           IN  /\ r \in Seq(Tracks) /\ Len(r) = Len(s) - 1
               /\ \A k \in 1 .. i : r[k] = s[k]
<1>1. Len(s) \in Nat /\ i \in Nat /\ i + 1 <= Len(s)
  OBVIOUS
<1> DEFINE left == SubSeq(s, 1, i)
           right == SubSeq(s, i + 2, Len(s))
<1>2. left \in Seq(Tracks) /\ Len(left) = i /\ \A k \in 1 .. i : left[k] = s[k]
  BY <1>1
<1>3. right \in Seq(Tracks) /\ Len(right) = Len(s) - i - 1
  BY <1>1
<1> HIDE DEF left, right
<1>4. left \o right \in Seq(Tracks) /\ Len(left \o right) = Len(s) - 1
  BY <1>1, <1>2, <1>3
<1>5. \A k \in 1 .. i : (left \o right)[k] = s[k]
  BY <1>1, <1>2, <1>3
<1> QED BY <1>4, <1>5 DEF left, right

LEMMA LeastElement ==
    ASSUME NEW S \in SUBSET Nat, S # {}
    PROVE  \E k \in S : \A j \in S : k <= j
<1>1. \E k \in S : \A j \in S : <<j, k>> \notin OpToRel(<, Nat)
  BY NatLessThanWellFounded, WFMin
<1>2. \A j, k \in Nat : <<j, k>> \in OpToRel(<, Nat) <=> j < k
  BY DEF OpToRel
<1>3. PICK k \in S : \A j \in S : ~(j < k)
  BY <1>1, <1>2
<1> QED BY <1>3

-----------------------------------------------------------------------------
(* What the owner calls *)

LEMMA OneElement ==
    ASSUME NEW e \in Engines, NEW i \in Elements, NEW a \in Element
    PROVE  LET r == [e EXCEPT !.el[i] = a]
           IN  /\ r \in Engines /\ Keeps(e, r) /\ r.fade = e.fade /\ r.standbyFor = e.standbyFor
               /\ r.el[i] = a /\ r.el[Other(i)] = e.el[Other(i)]
<1> DEFINE x == [e.el EXCEPT ![i] = a]
           r == [e EXCEPT !.el = x]
<1>1. e.el \in [Elements -> Element] /\ Other(i) \in Elements /\ Other(i) # i
  BY OtherOne DEF Engines
<1>2. x \in [Elements -> Element] /\ x[i] = a /\ x[Other(i)] = e.el[Other(i)]
  BY <1>1
<1> HIDE DEF x
<1>3. r \in Engines
  BY <1>2 DEF Engines
<1>4. Keeps(e, r) /\ r.fade = e.fade /\ r.standbyFor = e.standbyFor /\ r.el = x
  BY <1>2 DEF Engines, Keeps
<1>5. r = [e EXCEPT !.el[i] = a]
  BY DEF x
<1> QED BY <1>2, <1>3, <1>4, <1>5

\* An element pauses, fails, is held or moves: the rest stays as it is.
LEMMA ElementGood ==
    ASSUME NEW e, Ready(e), Located(e), Follows(e), Holds(e), NEW i \in Elements, NEW a \in Element,
           a.src = e.el[i].src, a.vol = e.el[i].vol,
           a.run = "playing" => e.el[i].run = "playing"
    PROVE  LET r == [e EXCEPT !.el[i] = a]
           IN  /\ Ready(r) /\ Located(r) /\ Follows(r) /\ Holds(r) /\ Quieter(e, r)
               /\ Keeps(e, r) /\ r.fade = e.fade /\ r.standbyFor = e.standbyFor
               /\ r.el[i] = a /\ r.el[Other(i)] = e.el[Other(i)]
<1> DEFINE r == [e EXCEPT !.el[i] = a]
<1>1. e \in Engines /\ e.active \in Elements
  BY DEF Ready, Engines
<1>2. /\ r \in Engines /\ Keeps(e, r) /\ r.fade = e.fade /\ r.standbyFor = e.standbyFor
      /\ r.el[i] = a /\ r.el[Other(i)] = e.el[Other(i)]
  BY <1>1, OneElement
<1> HIDE DEF r
<1>3. \A j \in Elements : j = i \/ j = Other(i)
  BY DEF Elements, Other
<1>4. \A j \in Elements : /\ r.el[j].src = e.el[j].src /\ r.el[j].vol = e.el[j].vol
                          /\ r.el[j].run = "playing" => e.el[j].run = "playing"
  BY <1>2, <1>3
<1>5. /\ Standby(r) = Standby(e) /\ Standby(e) \in Elements /\ (Fading(r) <=> Fading(e))
      /\ (HasCurrent(r) <=> HasCurrent(e)) /\ Current(r) = Current(e)
  BY <1>1, <1>2, OtherOne DEF Keeps, Standby, Fading, HasCurrent, Current
<1>6. Ready(r)
  BY <1>1, <1>2, <1>4, <1>5 DEF Ready, One, Waits, Ramps, Keeps
<1>7. Located(r) /\ Follows(r) /\ Holds(r) /\ Quieter(e, r)
  BY <1>1, <1>2, <1>4, <1>5 DEF Located, Follows, Holds, Quieter, Keeps
<1> QED BY <1>2, <1>6, <1>7 DEF r

LEMMA PlaysHolds == ASSUME NEW e, Good(e) PROVE Holds(e)
BY DEF Good, Plays, Holds

\* The same of a change that keeps playing what is wanted.
LEMMA ElementPlays ==
    ASSUME NEW e, Good(e), NEW i \in Elements, NEW a \in Element,
           a.src = e.el[i].src, a.vol = e.el[i].vol,
           a.run = "playing" => e.el[i].run = "playing",
           a.run = "paused" => e.el[i].run = "paused" \/ i # e.active \/ ~e.wantPlaying
    PROVE  LET r == [e EXCEPT !.el[i] = a]
           IN  /\ Good(r) /\ Quieter(e, r)
               /\ Keeps(e, r) /\ r.fade = e.fade /\ r.standbyFor = e.standbyFor
               /\ r.el[i] = a /\ r.el[Other(i)] = e.el[Other(i)]
<1> DEFINE r == [e EXCEPT !.el[i] = a]
<1>1. Ready(e) /\ Located(e) /\ Follows(e) /\ Holds(e) /\ Plays(e)
  BY PlaysHolds DEF Good
<1>2. /\ Ready(r) /\ Located(r) /\ Follows(r) /\ Holds(r) /\ Quieter(e, r)
      /\ Keeps(e, r) /\ r.fade = e.fade /\ r.standbyFor = e.standbyFor
      /\ r.el[i] = a /\ r.el[Other(i)] = e.el[Other(i)]
  BY <1>1, ElementGood
<1> HIDE DEF r
<1>3. e.active \in Elements /\ \A j \in Elements : j = i \/ j = Other(i)
  BY <1>1 DEF Elements, Other, Ready, Engines
<1>4. (HasCurrent(r) <=> HasCurrent(e))
  BY <1>2 DEF Keeps, HasCurrent
<1>5. Plays(r)
  BY <1>1, <1>2, <1>3, <1>4 DEF Plays, Holds, Keeps
<1> QED BY <1>2, <1>5 DEF Good, r

\* What is good, but for where a crossfade has got to.
Stoppable(e) ==
    /\ e \in Engines /\ One(e) /\ Waits(e) /\ Located(e) /\ Plays(e) /\ Follows(e)
    /\ ~Fading(e) => Ramps(e)

LEMMA StopFadeEnds ==
    ASSUME NEW e, Stoppable(e)
    PROVE  LET s == StopFade(e)
           IN  Good(s) /\ ~Fading(s) /\ Keeps(e, s) /\ Quieter(e, s) /\ s.standbyFor = e.standbyFor
<1> DEFINE s == StopFade(e)
<1>1. /\ Ready(s) /\ ~Fading(s) /\ Keeps(e, s) /\ s.standbyFor = e.standbyFor /\ Quieter(e, s)
      /\ s.el[e.active].src = e.el[e.active].src /\ s.el[e.active].run = e.el[e.active].run
  BY StopFadeGood DEF Stoppable
<1> HIDE DEF s
<1>2. (HasCurrent(s) <=> HasCurrent(e)) /\ Current(s) = Current(e)
  BY <1>1 DEF Keeps, HasCurrent, Current
<1>3. Located(s) /\ Follows(s) /\ Plays(s)
  BY <1>1, <1>2 DEF Stoppable, Located, Follows, Plays, Keeps
<1> QED BY <1>1, <1>3 DEF Good, s

LEMMA StopFadeKeepsGood ==
    ASSUME NEW e, Good(e)
    PROVE  LET s == StopFade(e)
           IN  Good(s) /\ ~Fading(s) /\ Keeps(e, s) /\ Quieter(e, s) /\ s.standbyFor = e.standbyFor
BY StopFadeEnds DEF Good, Ready, Stoppable

LEMMA SetGood ==
    ASSUME NEW e, Good(e), NEW w \in BOOLEAN, NEW shown \in BOOLEAN, w => e.wantPlaying
    PROVE  LET r == [e EXCEPT !.wantPlaying = w, !.shown = shown]
           IN  /\ Good(r) /\ r.queue = e.queue /\ r.index = e.index /\ r.el = e.el
               /\ r.active = e.active /\ r.wantPlaying = w /\ r.fade = e.fade /\ r.attached = e.attached
<1> DEFINE r == [e EXCEPT !.wantPlaying = w, !.shown = shown]
<1>1. e \in Engines
  BY DEF Good, Ready
<1>2. r \in Engines
  BY <1>1 DEF Engines
<1>3. /\ r.queue = e.queue /\ r.index = e.index /\ r.el = e.el /\ r.active = e.active
      /\ r.standbyFor = e.standbyFor /\ r.volume = e.volume /\ r.fade = e.fade
      /\ r.wantPlaying = w /\ r.attached = e.attached
  BY <1>1 DEF Engines
<1> HIDE DEF r
<1>4. Good(r)
  BY <1>2, <1>3
  DEF Good, Ready, Located, One, Waits, Ramps, Plays, Follows, HasCurrent, Current, Fading, Standby
<1> QED BY <1>3, <1>4 DEF r

\* A step that moves by one track at most.
Steps(e, r) ==
    Good(r) /\ Begins(e, r) /\ r.queue = e.queue /\ r.index \in {e.index - 1, e.index, e.index + 1}

LEMMA StepsTrans ==
    ASSUME NEW e, NEW m, NEW r, Quieter(e, m), m.queue = e.queue, m.index = e.index, Steps(m, r)
    PROVE  Steps(e, r)
BY DEF Steps, Begins, Quieter

LEMMA StaysStep ==
    ASSUME NEW e, NEW r, Good(r), Quieter(e, r), r.queue = e.queue, r.index = e.index
    PROVE  Steps(e, r)
BY DEF Steps, Begins, Quieter

LEMMA PauseSteps ==
    ASSUME NEW e, Good(e)
    PROVE  Steps(e, Pause(e))
<1> DEFINE s == StopFade(e)
           d == [s EXCEPT !.wantPlaying = FALSE, !.shown = FALSE]
           r == Pause(e)
<1>1. Good(s) /\ Keeps(e, s) /\ Quieter(e, s)
  BY StopFadeKeepsGood
<1>2. r = [d EXCEPT !.el[e.active] = Paused(d.el[e.active])]
  <2>1. e.active \in Elements /\ s \in Engines
    BY <1>1 DEF Good, Ready, Engines
  <2>2. d.el = s.el
    BY <2>1 DEF Engines
  <2>3. r = [d EXCEPT !.el[e.active] = Paused(s.el[e.active])]
    BY DEF Pause
  <2> QED BY <2>2, <2>3
<1> HIDE DEF s
<1>3. /\ Good(d) /\ d.queue = e.queue /\ d.index = e.index /\ d.el = s.el
      /\ d.active = e.active /\ ~d.wantPlaying
  BY <1>1, SetGood DEF Keeps
<1> HIDE DEF d
<1>4. e.active \in Elements /\ d.el[e.active] \in Element
  BY <1>3 DEF Good, Ready, Engines
<1>5. Good(r) /\ Quieter(d, r) /\ Keeps(d, r)
  <2> DEFINE b == Paused(d.el[e.active])
  <2>1. /\ b \in Element /\ b.src = d.el[e.active].src /\ b.vol = d.el[e.active].vol
        /\ b.run # "playing"
    BY <1>4, OnElements
  <2> HIDE DEF b, r
  <2>2. r = [d EXCEPT !.el[e.active] = b]
    BY <1>2 DEF b
  <2> QED BY <1>3, <1>4, <2>1, <2>2, ElementPlays
<1>6. Quieter(e, r) /\ r.queue = e.queue /\ r.index = e.index
  BY <1>1, <1>3, <1>5 DEF Quieter, Keeps
<1> QED BY <1>5, <1>6, StaysStep

LEMMA PlaySteps ==
    ASSUME NEW e, Good(e), e.attached, NEW ok \in BOOLEAN
    PROVE  Steps(e, Play(e, ok))
<1>1. CASE HasCurrent(e)
  BY <1>1, PlayGood, PlaysHolds DEF Good, Steps
<1>2. CASE ~HasCurrent(e)
  BY <1>2, StaysStep DEF Play, Quieter
<1> QED BY <1>1, <1>2

LEMMA ToggleSteps ==
    ASSUME NEW e, Good(e), e.attached, NEW ok \in BOOLEAN
    PROVE  Steps(e, Toggle(e, ok))
BY PauseSteps, PlaySteps DEF Toggle

LEMMA SkipNextSteps ==
    ASSUME NEW e, Good(e), e.attached, NEW ok \in BOOLEAN
    PROVE  Steps(e, SkipNext(e, ok))
<1> DEFINE s == StopFade(e)
<1>1. Good(s) /\ Keeps(e, s) /\ Quieter(e, s)
  BY StopFadeKeepsGood
<1>2. SkipNext(e, ok) = Advance(s, ok)
  BY DEF SkipNext
<1> HIDE DEF s
<1>3. Ready(s) /\ Located(s) /\ Follows(s) /\ s.attached
  BY <1>1 DEF Good, Keeps
<1>4. Steps(s, Advance(s, ok))
  BY <1>3, AdvanceGood DEF Steps
<1> QED BY <1>1, <1>2, <1>4, StepsTrans DEF Keeps

LEMMA SeekSteps ==
    ASSUME NEW e, Good(e), NEW place \in Places
    PROVE  /\ Steps(e, Seek(e, place)) /\ Quieter(e, Seek(e, place))
           /\ Keeps(e, Seek(e, place)) /\ Seek(e, place).fade = e.fade
           /\ \A i \in Elements : Seek(e, place).el[i].run = e.el[i].run
<1> DEFINE a == [e.el[e.active] EXCEPT !.at = place]
           r == Seek(e, place)
<1>1. e.active \in Elements /\ e.el[e.active] \in Element
  BY DEF Good, Ready, Engines
<1>2. /\ a \in Element /\ a.src = e.el[e.active].src /\ a.vol = e.el[e.active].vol
      /\ a.run = e.el[e.active].run
  BY <1>1 DEF Element
<1>3. r = [e EXCEPT !.el[e.active] = a]
  BY DEF Seek
<1> HIDE DEF a, r
<1>4. /\ Good(r) /\ Quieter(e, r) /\ Keeps(e, r) /\ r.fade = e.fade
      /\ r.el[e.active] = a /\ r.el[Other(e.active)] = e.el[Other(e.active)]
  BY <1>1, <1>2, <1>3, ElementPlays
<1>5. \A i \in Elements : i = e.active \/ i = Other(e.active)
  BY <1>1 DEF Elements, Other
<1> QED BY <1>2, <1>4, <1>5, StaysStep DEF Keeps, r

LEMMA PreviousSteps ==
    ASSUME NEW e, Good(e), e.attached, NEW ok \in BOOLEAN
    PROVE  Steps(e, Previous(e, ok))
<1> DEFINE back == e.el[e.active].at # "start" \/ e.index <= 0
           s == StopFade(e)
<1>1. CASE back
  <2>1. Previous(e, ok) = Seek(e, "start")
    BY <1>1 DEF Previous
  <2> QED BY <2>1, SeekSteps, EngineConstants
<1>2. CASE ~back
  <2>1. /\ e \in Engines /\ e.index \in Int /\ Len(e.queue) \in Nat /\ e.index <= Len(e.queue)
        /\ e.wantPlaying \in BOOLEAN
    BY DEF Good, Ready, Located, Engines
  <2>2. e.index - 1 \in Nat /\ ~(e.index - 1 >= Len(e.queue))
    BY <1>2, <2>1
  <2>3. Good(s) /\ Keeps(e, s) /\ Quieter(e, s)
    BY StopFadeKeepsGood
  <2>4. Previous(e, ok) = Start(s, e.index - 1, e.wantPlaying, ok)
    BY <1>2 DEF Previous
  <2> HIDE DEF s
  <2>5. /\ Ready(s) /\ s.attached /\ s.wantPlaying = e.wantPlaying
        /\ s.queue = e.queue /\ s.index = e.index
    BY <2>3 DEF Good, Keeps
  <2>6. LET r == Start(s, e.index - 1, e.wantPlaying, ok)
        IN  Good(r) /\ Begins(s, r) /\ r.queue = s.queue /\ r.index = e.index - 1
    <3> DEFINE k == e.index - 1
    <3>1. k \in Nat /\ ~(k >= Len(s.queue))
      BY <2>2, <2>5
    <3> HIDE DEF k
    <3>2. LET r == Start(s, k, e.wantPlaying, ok)
          IN  Good(r) /\ Begins(s, r) /\ r.queue = s.queue /\ r.index = k
      BY <2>1, <2>5, <3>1, StartGood
    <3> QED BY <3>2 DEF k
  <2> QED BY <2>3, <2>4, <2>5, <2>6, StepsTrans DEF Steps
<1> QED BY <1>1, <1>2

LEMMA SettingsSteps ==
    ASSUME NEW e, Good(e), NEW v \in Volumes, NEW on \in BOOLEAN
    PROVE  Steps(e, SetCrossfade(SetVolume(e, v), on))
<1> DEFINE r == SetVolume(e, v)
           q == SetCrossfade(r, on)
           s == [e EXCEPT !.volume = v]
           a == [e.el[e.active] EXCEPT !.vol = v]
<1>1. e \in Engines /\ e.active \in Elements /\ e.el[e.active] \in Element /\ v \in Nat
  BY EngineConstants DEF Good, Ready, Engines
<1>2. s \in Engines
  BY <1>1 DEF Engines
<1>3. /\ s.queue = e.queue /\ s.index = e.index /\ s.el = e.el /\ s.active = e.active
      /\ s.standbyFor = e.standbyFor /\ s.volume = v /\ s.fade = e.fade
      /\ s.wantPlaying = e.wantPlaying /\ s.attached = e.attached
  BY <1>1 DEF Engines
<1> HIDE DEF s
<1>4. /\ a \in Element /\ a.src = e.el[e.active].src /\ a.vol = v /\ a.run = e.el[e.active].run
  BY <1>1 DEF Element
<1>5. r = IF Fading(e) THEN s ELSE [s EXCEPT !.el[e.active] = a]
  <2>1. r = IF Fading(e) THEN s ELSE [s EXCEPT !.el[e.active] = [s.el[e.active] EXCEPT !.vol = v]]
    BY DEF SetVolume, s
  <2> QED BY <2>1, <1>3 DEF a
<1> HIDE DEF a, r
<1>6. /\ r \in Engines /\ r.queue = e.queue /\ r.index = e.index /\ r.active = e.active
      /\ r.standbyFor = e.standbyFor /\ r.fade = e.fade /\ r.volume = v
      /\ r.wantPlaying = e.wantPlaying /\ r.attached = e.attached
      /\ r.el[Other(e.active)] = e.el[Other(e.active)]
      /\ r.el[e.active].src = e.el[e.active].src /\ r.el[e.active].run = e.el[e.active].run
      /\ ~Fading(e) => r.el[e.active].vol = v
  BY <1>1, <1>2, <1>3, <1>4, <1>5, OneElement DEF Keeps
<1>7. q \in Engines
  BY <1>6 DEF SetCrossfade, Engines
<1>8. /\ q.queue = e.queue /\ q.index = e.index /\ q.active = e.active
      /\ q.standbyFor = e.standbyFor /\ q.fade = e.fade /\ q.volume = v
      /\ q.wantPlaying = e.wantPlaying /\ q.attached = e.attached /\ q.el = r.el
  BY <1>6 DEF SetCrossfade, Engines
<1> HIDE DEF q
<1>9. \A i \in Elements : i = e.active \/ i = Other(e.active)
  BY <1>1 DEF Elements, Other
<1>10. /\ (HasCurrent(q) <=> HasCurrent(e)) /\ Current(q) = Current(e)
       /\ (Fading(q) <=> Fading(e)) /\ Standby(q) = Standby(e) /\ Standby(e) = Other(e.active)
  BY <1>8 DEF HasCurrent, Current, Fading, Standby
<1>11. Good(q)
  BY <1>6, <1>7, <1>8, <1>10
  DEF Good, Ready, Located, One, Waits, Ramps, Plays, Follows
<1>12. Quieter(e, q)
  BY <1>6, <1>8, <1>9 DEF Quieter
<1>13. Steps(e, q)
  BY <1>8, <1>11, <1>12, StaysStep
<1> QED BY <1>13 DEF q, r

LEMMA DisposeSteps ==
    ASSUME NEW e, Good(e)
    PROVE  Steps(e, Dispose(e))
<1> DEFINE s == StopFade(e)
           x == [i \in Elements |-> Paused(s.el[i])]
           r == [s EXCEPT !.el = x, !.attached = FALSE]
<1>1. Good(s) /\ ~Fading(s) /\ Keeps(e, s) /\ Quieter(e, s)
  BY StopFadeKeepsGood
<1>2. Dispose(e) = r
  BY DEF Dispose
<1> HIDE DEF s
<1>3. s \in Engines /\ s.active \in Elements /\ Standby(s) \in Elements /\ s.el \in [Elements -> Element]
  BY <1>1, OtherOne DEF Good, Ready, Engines, Standby
<1>4. /\ x \in [Elements -> Element]
      /\ \A i \in Elements : /\ x[i].src = s.el[i].src /\ x[i].vol = s.el[i].vol
                             /\ x[i].run # "playing"
  BY <1>3, OnElements
<1> HIDE DEF x
<1>5. r \in Engines
  BY <1>3, <1>4 DEF Engines
<1>6. /\ r.queue = s.queue /\ r.index = s.index /\ r.active = s.active /\ r.el = x
      /\ r.standbyFor = s.standbyFor /\ r.fade = s.fade /\ r.volume = s.volume /\ ~r.attached
  BY <1>3, <1>4 DEF Engines
<1> HIDE DEF r
<1>7. /\ (HasCurrent(r) <=> HasCurrent(s)) /\ Current(r) = Current(s)
      /\ ~Fading(r) /\ Standby(r) = Standby(s)
  BY <1>1, <1>6 DEF HasCurrent, Current, Fading, Standby
<1>8. Good(r)
  BY <1>1, <1>3, <1>4, <1>5, <1>6, <1>7
  DEF Good, Ready, Located, One, Waits, Ramps, Plays, Follows
<1>9. Quieter(e, r)
  BY <1>4, <1>6 DEF Quieter
<1> QED BY <1>1, <1>2, <1>6, <1>8, <1>9, StaysStep DEF Keeps

\* Of the queue before nothing goes on.
LEMMA LoadGood ==
    ASSUME NEW e, Good(e), e.attached, NEW tracks \in Seq(Tracks) \ {<<>>}, NEW ok \in BOOLEAN
    PROVE  LET r == Load(e, tracks, ok)
           IN  Good(r) /\ r.queue = tracks /\ r.index = 0 /\ ~Fading(r)
<1> DEFINE s == StopFade(e)
           d == [s EXCEPT !.queue = tracks, !.askedMore = FALSE, !.standbyFor = -1]
           a == Sourced(s.el[Standby(s)], NoTrack)
           f == [d EXCEPT !.el[Standby(s)] = a]
           r == Load(e, tracks, ok)
<1>1. Good(s) /\ ~Fading(s) /\ s.attached
  BY StopFadeKeepsGood DEF Keeps
<1>2. d.el = s.el
  <2>1. s \in Engines
    BY <1>1 DEF Good, Ready
  <2> QED BY <2>1 DEF Engines
<1>3. r = Start(f, 0, TRUE, ok)
  <2>1. r = Start([d EXCEPT !.el[Standby(s)] = Sourced(s.el[Standby(s)], NoTrack)], 0, TRUE, ok)
    BY DEF Load
  <2> QED BY <2>1 DEF a
<1> HIDE DEF s
<1>4. /\ s \in Engines /\ s.active \in Elements /\ Standby(s) \in Elements /\ Standby(s) # s.active
      /\ s.el[Standby(s)] \in Element /\ Other(Standby(s)) = s.active
  BY <1>1, OtherOne DEF Good, Ready, Engines, Standby
<1>5. d \in Engines
  <2>1. -1 \in Int
    OBVIOUS
  <2>2. ASSUME NEW m \in Int
        PROVE  [s EXCEPT !.queue = tracks, !.askedMore = FALSE, !.standbyFor = m] \in Engines
    BY <1>4 DEF Engines
  <2> QED BY <2>1, <2>2
<1>6. /\ d.queue = tracks /\ d.active = s.active /\ d.standbyFor = -1 /\ d.fade = s.fade
      /\ d.volume = s.volume /\ d.attached = s.attached /\ d.el = s.el
  BY <1>4 DEF Engines
<1> HIDE DEF d
<1>7. a \in Element /\ a.run = "paused"
  BY <1>4, OnSource
<1> HIDE DEF a
<1>8. /\ f \in Engines /\ Keeps(d, f) /\ f.fade = d.fade /\ f.standbyFor = -1
      /\ f.el[Standby(s)] = a /\ f.el[s.active] = s.el[s.active]
  BY <1>4, <1>5, <1>6, <1>7, OneElement
<1> HIDE DEF f
<1>9. Standby(f) = Standby(s) /\ ~Fading(f) /\ ~Fading(s)
  BY <1>1, <1>6, <1>8 DEF Keeps, Standby, Fading
<1>10. Ready(f) /\ f.attached /\ f.queue = tracks
  BY <1>1, <1>6, <1>7, <1>8, <1>9 DEF Ready, Good, One, Waits, Ramps, Keeps
<1>11. Len(tracks) \in Nat /\ Len(tracks) # 0
  OBVIOUS
<1>12. LET q == Start(f, 0, TRUE, ok)
       IN  Good(q) /\ q.queue = tracks /\ q.index = 0 /\ q.fade = f.fade
  <2>1. ~(0 >= Len(f.queue))
    BY <1>10, <1>11
  <2>2. ASSUME NEW autoplay \in BOOLEAN, autoplay, NEW k \in Nat, k = 0
        PROVE  LET q == Start(f, k, autoplay, ok)
               IN  Good(q) /\ q.queue = tracks /\ q.index = k /\ q.fade = f.fade
    <3>1. ~(k >= Len(f.queue))
      BY <2>1, <2>2
    <3>2. LET q == Start(f, k, autoplay, ok)
          IN  /\ Good(q) /\ q.queue = f.queue /\ q.fade = f.fade
              /\ q.index = (IF k >= Len(f.queue) THEN Len(f.queue) ELSE k)
      <4>1. Ready(f) /\ f.attached
        BY <1>10
      <4>2. k >= Len(f.queue) => f.standbyFor = -1
        BY <3>1
      <4>3. f.wantPlaying => autoplay
        BY <2>2
      <4> QED BY <4>1, <4>2, <4>3, StartGood
    <3> QED BY <1>10, <3>1, <3>2
  <2> QED BY <2>2
<1> QED BY <1>3, <1>9, <1>12 DEF Fading

LEMMA AppendPageGood ==
    ASSUME NEW e, Good(e), e.attached, NEW tracks \in Seq(Tracks), NEW ok \in BOOLEAN
    PROVE  LET r == AppendPage(e, tracks, ok)
           IN  /\ Good(r) /\ Begins(e, r) /\ r.index = e.index
               /\ r.queue = e.queue \o Without(tracks, Skipped(e))
<1> DEFINE more == Without(tracks, Skipped(e))
           list == e.queue \o more
           a == [e EXCEPT !.queue = list, !.askedMore = FALSE]
           r == AppendPage(e, tracks, ok)
<1>1. /\ e \in Engines /\ e.queue \in Seq(Tracks) /\ e.index \in -1 .. Len(e.queue)
      /\ Len(e.queue) \in Nat /\ e.wantPlaying \in BOOLEAN
  BY DEF Good, Ready, Located, Engines
<1>2. more \in Seq(Tracks)
  <2>1. more \in Seq(Tracks \ Skipped(e))
    BY WithoutType
  <2>2. Tracks \ Skipped(e) \subseteq Tracks
    OBVIOUS
  <2> HIDE DEF more
  <2> QED BY <2>1, <2>2, SeqMonotonic
<1>3. r = IF RanOut(e) /\ ~RanOut(a) THEN Start(a, a.index, a.wantPlaying, ok) ELSE PreloadNext(a)
  BY DEF AppendPage
<1>5. list = e.queue \o Without(tracks, Skipped(e))
  OBVIOUS
<1> HIDE DEF more
<1>4. /\ list \in Seq(Tracks) /\ Len(list) \in Nat /\ Len(list) >= Len(e.queue)
      /\ \A k \in 1 .. Len(e.queue) : list[k] = e.queue[k]
  BY <1>1, <1>2
<1> HIDE DEF list
<1>6. a \in Engines
  BY <1>1, <1>4 DEF Engines
<1>7. /\ a.queue = list /\ a.index = e.index /\ a.el = e.el /\ a.active = e.active
      /\ a.standbyFor = e.standbyFor /\ a.volume = e.volume /\ a.fade = e.fade
      /\ a.wantPlaying = e.wantPlaying /\ a.attached
  BY <1>1 DEF Engines
<1> HIDE DEF a, r
<1>8. Standby(a) = Standby(e) /\ (Fading(a) <=> Fading(e))
  BY <1>7 DEF Standby, Fading
<1>9. Ready(a)
  <2>1. One(a) /\ Ramps(a)
    BY <1>7, <1>8 DEF Good, Ready, One, Ramps
  <2>2. Waits(a)
    <3>1. SUFFICES ASSUME a.standbyFor # -1
                   PROVE  /\ ~Fading(a) /\ a.standbyFor \in 0 .. Len(a.queue) - 1
                          /\ a.el[Standby(a)].src = a.queue[a.standbyFor + 1]
      BY DEF Waits
    <3>2. /\ ~Fading(e) /\ e.standbyFor \in 0 .. Len(e.queue) - 1
          /\ e.el[Standby(e)].src = e.queue[e.standbyFor + 1]
      BY <1>7, <3>1 DEF Good, Ready, Waits
    <3>3. e.standbyFor + 1 \in 1 .. Len(e.queue) /\ e.standbyFor \in 0 .. Len(list) - 1
      BY <1>1, <1>4, <3>2
    <3> QED BY <1>4, <1>7, <1>8, <3>2, <3>3
  <2> QED BY <1>6, <2>1, <2>2 DEF Ready
<1>10. CASE RanOut(e) /\ ~RanOut(a)
  <2>1. e.index \in Nat /\ a.index = e.index /\ ~(e.index >= Len(list))
    BY <1>1, <1>7, <1>10 DEF RanOut
  <2>2. LET q == Start(a, e.index, a.wantPlaying, ok)
        IN  Good(q) /\ Begins(a, q) /\ q.queue = list /\ q.index = e.index
    BY <1>1, <1>7, <1>9, <2>1, StartGood
  <2>3. Good(r) /\ Begins(a, r) /\ r.queue = list /\ r.index = e.index
    BY <1>3, <1>10, <2>1, <2>2
  <2> QED BY <1>5, <1>7, <2>3 DEF Begins, r
<1>11. CASE ~(RanOut(e) /\ ~RanOut(a))
  <2>1. HasCurrent(a) => HasCurrent(e) /\ Current(a) = Current(e)
    <3>1. SUFFICES ASSUME HasCurrent(a) PROVE HasCurrent(e) /\ Current(a) = Current(e)
      OBVIOUS
    <3>2. e.index >= 0 /\ e.index < Len(e.queue)
      BY <1>1, <1>4, <1>7, <1>11, <3>1 DEF RanOut, HasCurrent
    <3>3. e.index + 1 \in 1 .. Len(e.queue)
      BY <1>1, <3>2
    <3> QED BY <1>1, <1>4, <1>7, <3>2, <3>3 DEF HasCurrent, Current
  <2>2. Good(a)
    BY <1>1, <1>4, <1>7, <1>8, <1>9, <2>1 DEF Good, Located, Plays, Follows
  <2>3. Good(r) /\ Quieter(a, r) /\ Keeps(a, r)
    BY <1>3, <1>11, <2>2, PreloadNextGood
  <2> QED BY <1>5, <1>7, <2>3 DEF Begins, Quieter, Keeps, r
<1> QED BY <1>10, <1>11

LEMMA RemoveGood ==
    ASSUME NEW e, Good(e), e.attached, NEW t \in Tracks, NEW ok \in BOOLEAN
    PROVE  LET r == Remove(e, t, ok)
           IN  \/ r = e
               \/ /\ Good(r) /\ Begins(e, r) /\ r.index = e.index
                  /\ \E i \in 0 .. Len(e.queue) - 1 :
                       /\ i >= e.index
                       /\ r.queue = SubSeq(e.queue, 1, i) \o SubSeq(e.queue, i + 2, Len(e.queue))
<1> DEFINE r == Remove(e, t, ok)
<1>1. CASE Found(e, t) = {}
  BY <1>1 DEF Remove
<1>2. CASE Found(e, t) # {}
  <2> DEFINE i == CHOOSE k \in Found(e, t) : \A j \in Found(e, t) : k <= j
             list == SubSeq(e.queue, 1, i) \o SubSeq(e.queue, i + 2, Len(e.queue))
             w == IF i \in {e.index, e.standbyFor} THEN -1
                  ELSE IF e.standbyFor > i THEN e.standbyFor - 1 ELSE e.standbyFor
             a == [[e EXCEPT !.queue = list] EXCEPT !.standbyFor = w]
  <2>1. /\ e \in Engines /\ e.queue \in Seq(Tracks) /\ e.index \in -1 .. Len(e.queue)
        /\ Len(e.queue) \in Nat /\ e.wantPlaying \in BOOLEAN /\ e.standbyFor \in Int
    BY DEF Good, Ready, Located, Engines
  <2>2. i \in Found(e, t)
    <3>1. Found(e, t) \subseteq Nat
      BY <2>1 DEF Found
    <3>2. \E k \in Found(e, t) : \A j \in Found(e, t) : k <= j
      BY <1>2, <3>1, LeastElement
    <3> QED BY <3>2
  <2>3. r = IF i = e.index THEN Start(a, i, e.wantPlaying, ok) ELSE PreloadNext(a)
    <3>1. SplicedOnly(e, i) = [e EXCEPT !.queue = list]
      BY DEF SplicedOnly
    <3>2. [e EXCEPT !.queue = list].standbyFor = e.standbyFor
      BY <2>1 DEF Engines
    <3>3. Spliced(e, i) = a
      <4> DEFINE q == SplicedOnly(e, i)
      <4>1. Spliced(e, i) = [q EXCEPT !.standbyFor =
                               IF i \in {e.index, q.standbyFor} THEN -1
                               ELSE IF q.standbyFor > i THEN q.standbyFor - 1 ELSE q.standbyFor]
        BY Zenon DEF Spliced
      <4>2. q = [e EXCEPT !.queue = list] /\ q.standbyFor = e.standbyFor
        BY <3>1, <3>2
      <4> HIDE DEF q, i, list
      <4> QED BY <4>1, <4>2
    <3> QED BY <1>2, <3>3 DEF Remove
  <2> HIDE DEF i
  <2>4. i \in 0 .. Len(e.queue) - 1 /\ i >= e.index
    BY <2>2 DEF Found
  <2>5. /\ list \in Seq(Tracks) /\ Len(list) = Len(e.queue) - 1
        /\ \A k \in 1 .. i : list[k] = e.queue[k]
    BY <2>1, <2>4, SpliceFacts
  <2>6. w \in Int /\ (i = e.index => w = -1) /\ w \in {-1, e.standbyFor}
    BY <2>1, <2>4 DEF Good, Ready, Waits, Follows
  <2>7. w # -1 => w < i
    BY <2>1, <2>4, <2>6 DEF Good, Ready, Waits, Follows
  <2>8. list = SubSeq(e.queue, 1, i) \o SubSeq(e.queue, i + 2, Len(e.queue))
    OBVIOUS
  <2> HIDE DEF list, w
  <2>9. a \in Engines
    BY <2>1, <2>5, <2>6 DEF Engines
  <2>10. /\ a.queue = list /\ a.index = e.index /\ a.el = e.el /\ a.active = e.active
         /\ a.standbyFor = w /\ a.volume = e.volume /\ a.fade = e.fade
         /\ a.wantPlaying = e.wantPlaying /\ a.attached
    BY <2>1 DEF Engines
  <2> HIDE DEF a, r
  <2>11. Standby(a) = Standby(e) /\ (Fading(a) <=> Fading(e))
    BY <2>10 DEF Standby, Fading
  <2>12. Ready(a)
    BY <2>1, <2>4, <2>5, <2>6, <2>7, <2>9, <2>10, <2>11 DEF Good, Ready, One, Waits, Ramps
  <2>13. CASE i = e.index
    <3>1. i \in Nat /\ (i >= Len(list) => Len(list) = i)
      BY <2>1, <2>4, <2>5
    <3>2. LET q == Start(a, i, e.wantPlaying, ok)
          IN  /\ Good(q) /\ Begins(a, q) /\ q.queue = a.queue
              /\ q.index = (IF i >= Len(a.queue) THEN Len(a.queue) ELSE i)
      BY <2>1, <2>6, <2>10, <2>12, <2>13, <3>1, StartGood
    <3>3. Good(r) /\ Begins(a, r) /\ r.queue = list /\ r.index = e.index
      BY <2>3, <2>10, <2>13, <3>1, <3>2
    <3> QED BY <2>4, <2>8, <2>10, <3>3 DEF Begins, r
  <2>14. CASE i # e.index
    <3>1. HasCurrent(a) => HasCurrent(e) /\ Current(a) = Current(e)
      BY <2>1, <2>4, <2>5, <2>10, <2>14 DEF HasCurrent, Current
    <3>2. Good(a)
      BY <2>1, <2>4, <2>5, <2>6, <2>10, <2>11, <2>12, <2>14, <3>1 DEF Good, Located, Plays, Follows
    <3>3. Good(r) /\ Quieter(a, r) /\ Keeps(a, r)
      BY <2>3, <2>14, <3>2, PreloadNextGood
    <3> QED BY <2>4, <2>8, <2>10, <3>3 DEF Begins, Quieter, Keeps, r
  <2> QED BY <2>13, <2>14
<1> QED BY <1>1, <1>2

-----------------------------------------------------------------------------
(* What the elements report *)

LEMMA StartFadeGood ==
    ASSUME NEW e, Good(e), e.attached, ~Fading(e), e.index + 1 < Len(e.queue), NEW ok \in BOOLEAN
    PROVE  LET r == StartFade(e, e.index + 1, ok)
           IN  /\ Good(r) /\ Begins(e, r) /\ r.attached /\ r.active # e.active
               /\ r.queue = e.queue /\ r.index = e.index + 1
<1> DEFINE n == e.index + 1
           p == IF e.standbyFor # n THEN PreloadNext(e) ELSE e
           to == Standby(p)
           a == Begun([p.el[to] EXCEPT !.vol = 0], ok)
           q == [p EXCEPT !.el[to] = a, !.active = to, !.index = n, !.standbyFor = -1,
                          !.wantPlaying = ok, !.shown = ok, !.changed = TRUE,
                          !.fade = [to |-> to, step |-> 0]]
           r == StartFade(e, n, ok)
<1>1. r = CheckMore(q)
  BY DEF StartFade
<1>2. /\ e.index \in Int /\ n \in Int /\ n \in 0 .. Len(e.queue) - 1 /\ Len(e.queue) \in Nat
      /\ e.queue \in Seq(Tracks)
  BY DEF Good, Ready, Located, Engines
<1>3. Good(p) /\ Quieter(e, p) /\ Keeps(e, p) /\ ~Fading(p) /\ p.standbyFor = n
  <2>1. CASE e.standbyFor # n
    BY <2>1, PreloadNextGood DEF Fading
  <2>2. CASE e.standbyFor = n
    BY <2>2 DEF Quieter, Keeps
  <2> QED BY <2>1, <2>2
<1> HIDE DEF p
<1>4. /\ p \in Engines /\ p.active \in Elements /\ to \in Elements /\ to # p.active
      /\ p.el \in [Elements -> Element] /\ Other(to) = p.active
      /\ p.el[to].src = e.queue[n + 1] /\ p.attached
  <2>1. p \in Engines /\ p.active \in Elements /\ p.el \in [Elements -> Element]
    BY <1>3 DEF Good, Ready, Engines
  <2>2. to \in Elements /\ to # p.active /\ Other(to) = p.active
    BY <2>1, OtherOne DEF Standby
  <2>3. p.queue = e.queue /\ p.attached
    BY <1>3 DEF Keeps
  <2>4. p.el[to].src = e.queue[n + 1]
    BY <1>2, <1>3, <2>3 DEF Good, Ready, Waits
  <2> QED BY <2>1, <2>2, <2>3, <2>4
<1> HIDE DEF to
<1>5. /\ a \in Element /\ a.src = e.queue[n + 1]
      /\ ok => a.run # "paused"
  <2>1. [p.el[to] EXCEPT !.vol = 0] \in Element /\ [p.el[to] EXCEPT !.vol = 0].src = e.queue[n + 1]
    BY <1>4 DEF Element
  <2> QED BY <2>1, OnElements
<1> DEFINE x == [p EXCEPT !.el[to] = a]
<1>6. /\ x \in Engines /\ Keeps(p, x) /\ x.el[to] = a /\ x.el[p.active] = p.el[p.active]
  <2> HIDE DEF a
  <2> QED BY <1>4, <1>5, OneElement
<1>7. q = [x EXCEPT !.active = to, !.index = n, !.standbyFor = -1,
                    !.wantPlaying = ok, !.shown = ok, !.changed = TRUE,
                    !.fade = [to |-> to, step |-> 0]]
  OBVIOUS
<1> HIDE DEF a, x, q, n
<1>8. q \in Engines
  <2>1. ASSUME NEW m \in Int, NEW f \in [to : {0, 1, 2}, step : Nat]
        PROVE  [x EXCEPT !.active = to, !.index = n, !.standbyFor = m,
                         !.wantPlaying = ok, !.shown = ok, !.changed = TRUE, !.fade = f] \in Engines
    BY <1>2, <1>4, <1>6 DEF Engines
  <2>2. [to |-> to, step |-> 0] \in [to : {0, 1, 2}, step : Nat]
    BY <1>4 DEF Elements
  <2>3. -1 \in Int
    OBVIOUS
  <2> QED BY <1>7, <2>1, <2>2, <2>3
<1>9. /\ q.queue = e.queue /\ q.index = n /\ q.active = to /\ q.standbyFor = -1
      /\ q.wantPlaying = ok /\ q.attached /\ q.fade = [to |-> to, step |-> 0] /\ q.el = x.el
  <2>1. /\ q.queue = x.queue /\ q.index = n /\ q.active = to /\ q.standbyFor = -1
        /\ q.wantPlaying = ok /\ q.attached = x.attached /\ q.fade = [to |-> to, step |-> 0]
        /\ q.el = x.el
    BY <1>4, <1>6, <1>7 DEF Engines
  <2> QED BY <1>3, <1>4, <1>6, <2>1 DEF Keeps
<1>10. Fading(q) /\ q.fade.to = to /\ q.fade.step = 0
  BY <1>4, <1>9 DEF Fading, NoFade, Elements
<1>11. HasCurrent(q) /\ Current(q) = e.queue[n + 1]
  BY <1>2, <1>9 DEF HasCurrent, Current
<1>12. Good(q)
  <2>1. One(q) /\ Waits(q) /\ Follows(q)
    BY <1>9, <1>10 DEF One, Waits, Follows
  <2>2. Ramps(q)
    BY <1>9, <1>10, EngineConstants DEF Ramps
  <2>3. Located(q)
    BY <1>2, <1>9 DEF Located
  <2>4. Plays(q)
    BY <1>5, <1>6, <1>9, <1>11 DEF Plays
  <2> QED BY <1>8, <2>1, <2>2, <2>3, <2>4 DEF Good, Ready
<1>13. \A i \in Elements : i = to \/ i = p.active
  BY <1>4 DEF Elements
<1>14. Begins(e, q)
  <2>1. \A i \in Elements : p.el[i].run = "playing" =>
           e.el[i].run = "playing" /\ p.el[i].src = e.el[i].src
    BY <1>3 DEF Quieter
  <2>2. q.el[to].src = Current(q)
    BY <1>5, <1>6, <1>9, <1>11
  <2>3. q.el[p.active] = p.el[p.active]
    BY <1>6, <1>9
  <2> QED BY <1>11, <1>13, <2>1, <2>2, <2>3 DEF Begins
<1>15. Good(r) /\ Same(q, r)
  BY <1>1, <1>12, CheckMoreGood
<1> HIDE DEF r
<1>16. Begins(e, r)
  BY <1>14, <1>15 DEF Begins, Same, HasCurrent, Current
<1>17. r.active # e.active
  BY <1>3, <1>4, <1>9, <1>15 DEF Keeps, Same
<1> QED BY <1>9, <1>15, <1>16, <1>17 DEF Same, n, r

LEMMA OnTimeUpdateSteps ==
    ASSUME NEW e, Good(e), e.attached, NEW ok \in BOOLEAN
    PROVE  LET r == OnTimeUpdate(e, ok)
           IN  Steps(e, r) /\ r.attached /\ (r.active = e.active => r = e)
<1> DEFINE fades == /\ e.crossfade /\ ~Fading(e) /\ e.wantPlaying
                    /\ e.el[e.active].at = "tail"
                    /\ e.el[e.active].src \in LongTracks
                    /\ e.index + 1 < Len(e.queue)
<1>1. CASE fades
  <2>1. OnTimeUpdate(e, ok) = StartFade(e, e.index + 1, ok)
    BY <1>1 DEF OnTimeUpdate
  <2> QED BY <1>1, <2>1, StartFadeGood DEF Steps
<1>2. CASE ~fades
  <2>1. OnTimeUpdate(e, ok) = e
    BY <1>2 DEF OnTimeUpdate
  <2> QED BY <2>1, StaysStep DEF Quieter
<1> QED BY <1>1, <1>2

LEMMA MovesSteps ==
    ASSUME NEW e, Good(e), e.attached, NEW place \in Places, NEW ok \in BOOLEAN
    PROVE  Steps(e, Moves(e, place, ok))
<1> DEFINE s == Seek(e, place)
<1>1. Steps(e, s) /\ Quieter(e, s) /\ Keeps(e, s)
  BY SeekSteps
<1>2. Moves(e, place, ok) = OnTimeUpdate(s, ok)
  BY DEF Moves
<1> HIDE DEF s
<1>3. Steps(s, OnTimeUpdate(s, ok))
  BY <1>1, OnTimeUpdateSteps DEF Steps, Keeps
<1> QED BY <1>1, <1>2, <1>3, StepsTrans DEF Keeps

LEMMA ShownReady ==
    ASSUME NEW e, Ready(e), Located(e), Follows(e), NEW b \in BOOLEAN
    PROVE  LET r == [e EXCEPT !.shown = b]
           IN  Ready(r) /\ Located(r) /\ Follows(r) /\ Same(e, r)
<1> DEFINE r == [e EXCEPT !.shown = b]
<1>1. e \in Engines
  BY DEF Ready
<1>2. r \in Engines
  BY <1>1 DEF Engines
<1>3. Same(e, r)
  BY <1>1 DEF Engines, Same
<1> HIDE DEF r
<1>4. Ready(r) /\ Located(r) /\ Follows(r)
  BY <1>2, <1>3 DEF Ready, Located, Follows, One, Waits, Ramps, Same, Standby, Fading
<1> QED BY <1>3, <1>4 DEF r

LEMMA EndsSteps ==
    ASSUME NEW e, Good(e), e.attached, NEW i \in Elements, e.el[i].run = "playing", NEW ok \in BOOLEAN
    PROVE  Steps(e, Ends(e, i, ok))
<1> DEFINE t == IF i = e.active THEN OnTimeUpdate(e, ok) ELSE e
           a == Paused(t.el[i])
           p == [t EXCEPT !.el[i] = a]
           b == p.shown /\ Fading(p)
           q == [p EXCEPT !.shown = b]
           r == Ends(e, i, ok)
<1>1. r = IF i # t.active THEN p ELSE Advance(q, ok)
  BY DEF Ends
<1>2. Steps(e, t) /\ t.attached /\ (i = t.active => t = e)
  <2>1. CASE i = e.active
    BY <2>1, OnTimeUpdateSteps
  <2>2. CASE i # e.active
    BY <2>2, StaysStep DEF Quieter
  <2> QED BY <2>1, <2>2
<1> HIDE DEF t
<1>3. Good(t) /\ Begins(e, t) /\ Holds(t) /\ t.el[i] \in Element
  BY <1>2, PlaysHolds DEF Steps, Good, Ready, Engines
<1>4. a \in Element /\ a.src = t.el[i].src /\ a.vol = t.el[i].vol /\ a.run # "playing"
  BY <1>3, OnElements
<1> HIDE DEF a
<1>5. /\ Ready(p) /\ Located(p) /\ Follows(p) /\ Quieter(t, p) /\ Keeps(t, p)
  BY <1>3, <1>4, ElementGood DEF Good
<1>6. CASE i # t.active
  <2>1. Good(p)
    BY <1>3, <1>4, <1>6, ElementPlays
  <2> HIDE DEF p
  <2>2. (HasCurrent(p) <=> HasCurrent(t)) /\ Current(p) = Current(t)
    BY <1>5 DEF Keeps, HasCurrent, Current
  <2>3. Begins(e, p)
    BY <1>3, <1>5, <2>2 DEF Begins, Quieter
  <2> QED BY <1>1, <1>2, <1>5, <1>6, <2>1, <2>3 DEF Steps, Keeps
<1>7. CASE i = t.active
  <2> HIDE DEF p, r
  <2>1. b \in BOOLEAN
    OBVIOUS
  <2> HIDE DEF b
  <2>2. Ready(q) /\ Located(q) /\ Follows(q) /\ Same(p, q)
    BY <1>5, <2>1, ShownReady
  <2> HIDE DEF q
  <2>3. q.attached /\ Quieter(e, q) /\ q.queue = e.queue /\ q.index = e.index
    BY <1>2, <1>5, <1>7, <2>2 DEF Same, Keeps, Quieter
  <2>4. Steps(q, Advance(q, ok))
    BY <2>2, <2>3, AdvanceGood DEF Steps
  <2> QED BY <1>1, <1>7, <2>3, <2>4, StepsTrans DEF r
<1> QED BY <1>6, <1>7

LEMMA FailsSteps ==
    ASSUME NEW e, Good(e), e.attached, NEW i \in Elements, NEW ok \in BOOLEAN
    PROVE  Steps(e, Fails(e, i, ok))
<1> DEFINE a == [e.el[i] EXCEPT !.run = "failed"]
           f == [e EXCEPT !.el[i] = a]
<1>1. e.el[i] \in Element
  BY DEF Good, Ready, Engines
<1>2. /\ a \in Element /\ a.src = e.el[i].src /\ a.vol = e.el[i].vol
      /\ a.run # "playing" /\ a.run # "paused"
  BY <1>1 DEF Element
<1>3. Fails(e, i, ok) = IF i = e.active THEN Advance(f, ok) ELSE f
  BY DEF Fails
<1> HIDE DEF a
<1>4. Good(f) /\ Quieter(e, f) /\ Keeps(e, f)
  BY <1>2, ElementPlays
<1> HIDE DEF f
<1>5. Steps(f, Advance(f, ok))
  BY <1>4, AdvanceGood DEF Steps, Good, Keeps
<1> QED BY <1>3, <1>4, <1>5, StepsTrans, StaysStep DEF Keeps

LEMMA HeldSteps ==
    ASSUME NEW e, Good(e), NEW i \in Elements
    PROVE  Steps(e, Held(e, i))
<1> DEFINE a == [e.el[i] EXCEPT !.run = "held"]
           f == [e EXCEPT !.el[i] = a]
           b == IF i = e.active /\ ~Fading(e) THEN FALSE ELSE e.shown
           r == [f EXCEPT !.shown = b]
<1>1. e \in Engines /\ e.el[i] \in Element /\ e.shown \in BOOLEAN
  BY DEF Good, Ready, Engines
<1>2. /\ a \in Element /\ a.src = e.el[i].src /\ a.vol = e.el[i].vol
      /\ a.run # "playing" /\ a.run # "paused"
  BY <1>1 DEF Element
<1>3. Held(e, i) = r
  <2>1. f.shown = e.shown
    BY <1>1 DEF Engines
  <2>2. Held(e, i) = [f EXCEPT !.shown = IF i = e.active /\ ~Fading(e) THEN FALSE ELSE f.shown]
    BY Zenon DEF Held
  <2> QED BY <2>1, <2>2
<1> HIDE DEF a
<1>4. Good(f) /\ Quieter(e, f) /\ Keeps(e, f)
  BY <1>2, ElementPlays
<1> HIDE DEF f
<1>5. b \in BOOLEAN
  BY <1>1
<1> HIDE DEF b
<1>6. r \in Engines /\ Same(f, r)
  BY <1>4, <1>5, ShownReady DEF Good, Ready
<1> HIDE DEF r
<1>7. Good(r)
  BY <1>4, <1>6, SameGood
<1>8. Quieter(e, r) /\ r.queue = e.queue /\ r.index = e.index
  BY <1>4, <1>6 DEF Quieter, Keeps, Same
<1> QED BY <1>3, <1>7, <1>8, StaysStep

LEMMA ShareOfVolume ==
    ASSUME NEW v \in Nat, NEW k \in Nat
    PROVE  (v * k) \div FadeSteps \in Nat
<1> DEFINE a == v * k
<1>1. a \in Nat
  OBVIOUS
<1> HIDE DEF a
<1>2. a \div FadeSteps \in Nat
  BY <1>1, EngineConstants
<1> QED BY <1>2 DEF a

LEMMA FadeTickSteps ==
    ASSUME NEW e, Good(e), Fading(e)
    PROVE  Steps(e, FadeTick(e))
<1> DEFINE to == e.fade.to
           k == e.fade.step + 1
           up == (e.volume * k) \div FadeSteps
           down == (e.volume * (FadeSteps - k)) \div FadeSteps
           x == [e.el EXCEPT ![to].vol = up, ![Other(to)].vol = down]
           t == [e EXCEPT !.fade.step = k, !.el = x]
           s == StopFade(t)
           r == FadeTick(e)
<1>1. /\ e \in Engines /\ e.active \in Elements /\ e.el \in [Elements -> Element]
      /\ e.fade \in [to : {0, 1, 2}, step : Nat] /\ to = e.active /\ e.volume \in Nat
  BY EngineConstants DEF Good, Ready, Engines, Ramps
<1>2. k \in Nat /\ FadeSteps - k \in Nat
  BY <1>1, EngineConstants DEF Good, Ready, Ramps
<1>3. up \in Nat /\ down \in Nat
  BY <1>1, <1>2, ShareOfVolume
<1>4. r = IF k < FadeSteps THEN t ELSE PreloadNext([s EXCEPT !.el[Other(to)] = Paused(s.el[Other(to)])])
  BY DEF FadeTick
<1>5. Other(to) \in Elements /\ Other(to) # to /\ Other(to) = Standby(e)
  BY <1>1, OtherOne DEF Standby
<1>6. \A i \in Elements : i = to \/ i = Other(to)
  BY <1>1 DEF Elements, Other
<1> HIDE DEF up, down, k
<1>7. /\ x \in [Elements -> Element]
      /\ \A i \in Elements : x[i].src = e.el[i].src /\ x[i].run = e.el[i].run
  <2>1. x \in [Elements -> Element]
    BY <1>1, <1>3, <1>5 DEF Element
  <2>2. x[to].src = e.el[to].src /\ x[to].run = e.el[to].run
    BY <1>1, <1>3, <1>5 DEF Element
  <2>3. x[Other(to)].src = e.el[Other(to)].src /\ x[Other(to)].run = e.el[Other(to)].run
    BY <1>1, <1>3, <1>5 DEF Element
  <2> QED BY <1>6, <2>1, <2>2, <2>3
<1> HIDE DEF x
<1> DEFINE f == [e.fade EXCEPT !.step = k]
<1>8. f \in [to : {0, 1, 2}, step : Nat] /\ f.to = to /\ f.step = k /\ f # NoFade
  BY <1>1, <1>2 DEF NoFade, Elements
<1>9. t = [e EXCEPT !.fade = f, !.el = x]
  OBVIOUS
<1> HIDE DEF f, t
<1>10. t \in Engines
  BY <1>1, <1>7, <1>8, <1>9 DEF Engines
<1>11. Keeps(e, t) /\ t.standbyFor = e.standbyFor /\ t.fade = f /\ t.el = x
  BY <1>1, <1>9 DEF Engines, Keeps
<1>12. /\ Fading(t) /\ (HasCurrent(t) <=> HasCurrent(e)) /\ Current(t) = Current(e)
       /\ Standby(t) = Standby(e)
  BY <1>8, <1>11 DEF Keeps, Fading, HasCurrent, Current, Standby
<1>13. Stoppable(t) /\ Quieter(e, t)
  <2>1. One(t)
    BY <1>1, <1>7, <1>11, <1>12 DEF Good, Ready, One, Keeps
  <2>2. Waits(t) /\ Follows(t) /\ Located(t)
    BY <1>11, <1>12 DEF Good, Ready, Waits, Follows, Located, Keeps
  <2>3. Plays(t)
    BY <1>1, <1>7, <1>11, <1>12 DEF Good, Plays, Keeps
  <2>4. Quieter(e, t)
    BY <1>7, <1>11 DEF Quieter
  <2> QED BY <1>10, <1>12, <2>1, <2>2, <2>3, <2>4 DEF Stoppable
<1>14. CASE k < FadeSteps
  <2>1. Ramps(t)
    BY <1>1, <1>8, <1>11, <1>12, <1>14 DEF Ramps, Keeps
  <2>2. Good(t)
    BY <1>13, <2>1 DEF Stoppable, Good, Ready
  <2> HIDE DEF r
  <2> QED BY <1>4, <1>11, <1>13, <1>14, <2>2, StaysStep DEF Keeps, r
<1>15. CASE ~(k < FadeSteps)
  <2>1. Good(s) /\ Keeps(t, s) /\ Quieter(t, s)
    BY <1>13, StopFadeEnds
  <2> DEFINE a == Paused(s.el[Other(to)])
             q == [s EXCEPT !.el[Other(to)] = a]
  <2> HIDE DEF s, r, to
  <2>2. s.el[Other(to)] \in Element /\ s.active = to
    BY <1>1, <1>5, <1>11, <2>1 DEF Good, Ready, Engines, Keeps
  <2>3. /\ a \in Element /\ a.src = s.el[Other(to)].src /\ a.vol = s.el[Other(to)].vol
        /\ a.run # "playing"
    BY <2>2, OnElements
  <2>4. r = PreloadNext(q)
    BY <1>4, <1>15
  <2> HIDE DEF a
  <2>5. Good(q) /\ Quieter(s, q) /\ Keeps(s, q)
    BY <1>5, <2>1, <2>2, <2>3, ElementPlays
  <2> HIDE DEF q
  <2>6. Good(r) /\ Quieter(q, r) /\ Keeps(q, r)
    BY <2>4, <2>5, PreloadNextGood
  <2>7. Quieter(e, r) /\ r.queue = e.queue /\ r.index = e.index
    BY <1>11, <1>13, <2>1, <2>5, <2>6 DEF Quieter, Keeps
  <2> QED BY <2>6, <2>7, StaysStep DEF r
<1> QED BY <1>14, <1>15

-----------------------------------------------------------------------------
(* The invariant *)

Inv == Good(eng) /\ eng.asks = FALSE /\ eng.changed = FALSE

LEMMA QuietGood ==
    ASSUME NEW e, Good(e)
    PROVE  LET r == Quiet(e)
           IN  Good(r) /\ Same(e, r) /\ r.asks = FALSE /\ r.changed = FALSE
<1> DEFINE r == Quiet(e)
<1>1. e \in Engines
  BY DEF Good, Ready
<1>2. r \in Engines
  BY <1>1 DEF Quiet, Engines
<1>3. Same(e, r) /\ r.asks = FALSE /\ r.changed = FALSE
  BY <1>1 DEF Quiet, Engines, Same
<1> QED BY <1>2, <1>3, SameGood

LEMMA InitInv == Init => Inv
<1> SUFFICES ASSUME Init PROVE Inv
  OBVIOUS
<1> DEFINE full == CHOOSE v \in Volumes : \A w \in Volumes : w <= v
           quietEl == [src |-> NoTrack, run |-> "paused", at |-> "start", vol |-> full]
           x == [i \in Elements |-> quietEl]
<1>1. full \in Volumes /\ full \in Nat
  BY EngineConstants
<1>2. eng = [queue |-> <<>>, index |-> -1, el |-> x,
             active |-> 1, standbyFor |-> -1, volume |-> full, crossfade |-> FALSE,
             fade |-> NoFade, askedMore |-> FALSE, wantPlaying |-> FALSE,
             shown |-> FALSE, attached |-> TRUE, asks |-> FALSE, changed |-> FALSE]
  BY DEF Init
<1> HIDE DEF full
<1>3. quietEl \in Element
  BY <1>1, EngineConstants DEF Element
<1>4. x \in [Elements -> Element] /\ \A i \in Elements : x[i].run = "paused" /\ x[i].vol = full
  BY <1>3
<1> HIDE DEF x
<1>5. eng \in Engines
  <2>1. <<>> \in Seq(Tracks) /\ -1 \in Int /\ 1 \in Elements /\ NoFade \in [to : {0, 1, 2}, step : Nat]
    BY DEF Elements, NoFade
  <2> QED BY <1>1, <1>2, <1>4, <2>1 DEF Engines
<1>6. /\ eng.queue = <<>> /\ eng.index = -1 /\ eng.el = x /\ eng.active = 1
      /\ eng.standbyFor = -1 /\ eng.volume = full /\ eng.fade = NoFade /\ eng.attached
      /\ eng.asks = FALSE /\ eng.changed = FALSE
  BY <1>2
<1>7. ~Fading(eng) /\ ~HasCurrent(eng) /\ Standby(eng) \in Elements /\ 1 \in Elements
  BY <1>6 DEF Fading, HasCurrent, Standby, Other, Elements
<1>8. Good(eng)
  BY <1>4, <1>5, <1>6, <1>7 DEF Good, Ready, Located, One, Waits, Ramps, Plays, Follows
<1> QED BY <1>6, <1>8 DEF Inv

\* Every action but the three that change the queue moves by a track at most.
LEMMA NextSteps ==
    ASSUME Inv, Next
    PROVE  \/ \E p \in Pages, ok \in BOOLEAN : CallLoad(p, ok) \/ CallAppend(p, ok)
           \/ \E t \in Tracks : CallRemove(t)
           \/ \E r : Steps(eng, r) /\ Becomes(r)
<1>1. Good(eng)
  BY DEF Inv
<1>2. TRUE \in BOOLEAN
  OBVIOUS
<1>3. ASSUME CallPlay PROVE \E r : Steps(eng, r) /\ Becomes(r)
  BY <1>1, <1>2, <1>3, PlaySteps DEF CallPlay
<1>4. ASSUME CallPause PROVE \E r : Steps(eng, r) /\ Becomes(r)
  BY <1>1, <1>4, PauseSteps DEF CallPause
<1>5. ASSUME CallToggle PROVE \E r : Steps(eng, r) /\ Becomes(r)
  BY <1>1, <1>2, <1>5, ToggleSteps DEF CallToggle
<1>6. ASSUME CallNext PROVE \E r : Steps(eng, r) /\ Becomes(r)
  BY <1>1, <1>2, <1>6, SkipNextSteps DEF CallNext
<1>7. ASSUME CallPrevious PROVE \E r : Steps(eng, r) /\ Becomes(r)
  BY <1>1, <1>2, <1>7, PreviousSteps DEF CallPrevious
<1>8. ASSUME NEW place \in Places, CallSeek(place) PROVE \E r : Steps(eng, r) /\ Becomes(r)
  BY <1>1, <1>8, SeekSteps DEF CallSeek
<1>9. ASSUME NEW v \in Volumes, NEW on \in BOOLEAN, CallSettings(v, on)
      PROVE  \E r : Steps(eng, r) /\ Becomes(r)
  BY <1>1, <1>9, SettingsSteps DEF CallSettings
<1>10. ASSUME CallDispose PROVE \E r : Steps(eng, r) /\ Becomes(r)
  BY <1>1, <1>10, DisposeSteps DEF CallDispose
<1>11. ASSUME NEW place \in Places, NEW ok \in BOOLEAN, TimePasses(place, ok)
       PROVE  \E r : Steps(eng, r) /\ Becomes(r)
  BY <1>1, <1>11, MovesSteps DEF TimePasses
<1>12. ASSUME NEW i \in Elements, NEW ok \in BOOLEAN, ElementEnds(i, ok)
       PROVE  \E r : Steps(eng, r) /\ Becomes(r)
  BY <1>1, <1>12, EndsSteps DEF ElementEnds, CanEnd
<1>13. ASSUME NEW i \in Elements, NEW ok \in BOOLEAN, ElementFails(i, ok)
       PROVE  \E r : Steps(eng, r) /\ Becomes(r)
  BY <1>1, <1>13, FailsSteps DEF ElementFails
<1>14. ASSUME NEW i \in Elements, SystemPauses(i) PROVE \E r : Steps(eng, r) /\ Becomes(r)
  BY <1>1, <1>14, HeldSteps DEF SystemPauses
<1>15. ASSUME FadeTicks PROVE \E r : Steps(eng, r) /\ Becomes(r)
  BY <1>1, <1>15, FadeTickSteps DEF FadeTicks
<1> QED
  BY <1>3, <1>4, <1>5, <1>6, <1>7, <1>8, <1>9, <1>10, <1>11, <1>12, <1>13, <1>14, <1>15 DEF Next

LEMMA BecomesInv ==
    ASSUME NEW r, Good(r), Becomes(r)
    PROVE  Inv' /\ Same(r, eng')
BY QuietGood DEF Inv, Becomes

LEMMA NextInv == Inv /\ [Next]_eng => Inv'
<1> SUFFICES ASSUME Inv, [Next]_eng PROVE Inv'
  OBVIOUS
<1>1. Good(eng)
  BY DEF Inv
<1>2. CASE UNCHANGED eng
  BY <1>2 DEF Inv
<1>3. CASE Next
  <2>1. ASSUME NEW p \in Pages, NEW ok \in BOOLEAN, CallLoad(p, ok) PROVE Inv'
    BY <1>1, <2>1, PagesAreTracks, LoadGood, BecomesInv DEF CallLoad
  <2>2. ASSUME NEW p \in Pages, NEW ok \in BOOLEAN, CallAppend(p, ok) PROVE Inv'
    BY <1>1, <2>2, PagesAreTracks, AppendPageGood, BecomesInv DEF CallAppend
  <2>3. ASSUME NEW t \in Tracks, CallRemove(t) PROVE Inv'
    <3>1. Good(Remove(eng, t, TRUE))
      BY <1>1, <2>3, RemoveGood DEF CallRemove
    <3> QED BY <2>3, <3>1, BecomesInv DEF CallRemove
  <2>4. ASSUME NEW r, Steps(eng, r), Becomes(r) PROVE Inv'
    BY <2>4, BecomesInv DEF Steps
  <2> QED BY <1>3, <2>1, <2>2, <2>3, <2>4, NextSteps
<1> QED BY <1>2, <1>3

LEMMA Invariance == Spec => []Inv
BY InitInv, NextInv, PTL DEF Spec

-----------------------------------------------------------------------------
(* The properties *)

LEMMA InvMeans == Inv => TypeOK /\ PlaysWhatIsWanted /\ OneSounds /\ StandbyIsNext /\ VolumeIsSet
<1> SUFFICES ASSUME Inv PROVE TypeOK /\ PlaysWhatIsWanted /\ OneSounds /\ StandbyIsNext /\ VolumeIsSet
  OBVIOUS
<1>1. eng \in Engines /\ eng.asks \in {FALSE} /\ eng.changed \in {FALSE} /\ Located(eng)
  BY DEF Inv, Good, Ready
<1>2. TypeOK
  BY <1>1 DEF TypeOK, Engines, Located
<1>3. PlaysWhatIsWanted
  BY DEF Inv, Good, Plays, PlaysWhatIsWanted
<1>4. OneSounds
  <2>1. eng.active \in Elements /\ One(eng)
    BY <1>1 DEF Inv, Good, Ready, Engines
  <2>2. \A i \in Elements : i = eng.active \/ i = Standby(eng)
    BY <2>1 DEF Elements, Standby, Other
  <2> QED BY <2>1, <2>2 DEF One, OneSounds, Sounding
<1>5. StandbyIsNext
  <2>1. Waits(eng) /\ Follows(eng) /\ Len(eng.queue) \in Nat
    BY <1>1 DEF Inv, Good, Ready, Engines
  <2> QED BY <2>1 DEF Waits, Follows, StandbyIsNext
<1>6. VolumeIsSet
  BY DEF Inv, Good, Ready, Ramps, VolumeIsSet
<1> QED BY <1>2, <1>3, <1>4, <1>5, <1>6

\* The fields of the engine keep their types, whatever is called and reported.
THEOREM TypeCorrect == Spec => []TypeOK
BY InvMeans, Invariance, PTL

\* When playing is wanted, the active element holds the current track and is
\* not left paused: no order of calls and events leaves the player silent on a
\* track it shows as playing, or on another one than it shows.
THEOREM WantedIsPlayed == Spec => []PlaysWhatIsWanted
BY InvMeans, Invariance, PTL

\* Two elements sound at once only in a crossfade, and none does after
\* dispose().
THEOREM OnlyOneSounds == Spec => []OneSounds
BY InvMeans, Invariance, PTL

\* standbyFor is -1 or names the next track, which the standby element holds,
\* through every load, append and removal.
THEOREM StandbyHoldsNext == Spec => []StandbyIsNext
BY InvMeans, Invariance, PTL

\* A crossfade goes to the active element, and outside of one that element has
\* the volume that was set, however the ramp was cut short.
THEOREM VolumeComesBack == Spec => []VolumeIsSet
BY InvMeans, Invariance, PTL

-----------------------------------------------------------------------------
(* PlayerEngine implements PlayOrder *)

HeardOf(e) == {e.el[i].src : i \in Sounding(e)}
CurrentOf(e) == IF e.index \in 0 .. Len(e.queue) - 1 THEN {e.queue[e.index + 1]} ELSE {}

LEMMA BeginsHeard ==
    ASSUME NEW e, NEW r, Begins(e, r)
    PROVE  HeardOf(r) \ HeardOf(e) \subseteq CurrentOf(r)
BY DEF HeardOf, CurrentOf, Begins, Sounding, HasCurrent, Current

LEMMA OneHeard ==
    ASSUME NEW e, Good(e), ~Fading(e), e.index = 0, e.queue # <<>>
    PROVE  HeardOf(e) \subseteq CurrentOf(e)
<1>1. e.active \in Elements /\ e.queue \in Seq(Tracks) /\ Len(e.queue) \in Nat
  BY DEF Good, Ready, Engines
<1>2. Len(e.queue) # 0
  BY <1>1
<1>3. HasCurrent(e) /\ CurrentOf(e) = {e.el[e.active].src}
  BY <1>1, <1>2 DEF Good, Plays, HasCurrent, Current, CurrentOf
<1>4. \A i \in Elements : i = e.active \/ i = Standby(e)
  BY <1>1 DEF Elements, Standby, Other
<1> QED BY <1>3, <1>4 DEF HeardOf, Sounding, Good, Ready, One

\* What append() leaves out is at least what waits.
LEMMA MoreIsNew ==
    ASSUME NEW e, Good(e), NEW tracks \in Seq(Tracks)
    PROVE  Without(tracks, Skipped(e)) \in
             Seq(Tracks \ {e.queue[k] : k \in {j \in 1 .. Len(e.queue) : j > e.index}})
<1> DEFINE waiting == {e.queue[k] : k \in {j \in 1 .. Len(e.queue) : j > e.index}}
<1>1. e.index \in Int /\ Len(e.queue) \in Nat
  BY DEF Good, Ready, Located, Engines
<1>2. waiting \subseteq Skipped(e)
  BY <1>1, EngineConstants DEF Skipped
<1>3. Without(tracks, Skipped(e)) \in Seq(Tracks \ Skipped(e))
  BY WithoutType
<1>4. Tracks \ Skipped(e) \subseteq Tracks \ waiting
  BY <1>2
<1> HIDE DEF waiting
<1>5. Without(tracks, Skipped(e)) \in Seq(Tracks \ waiting)
  BY <1>3, <1>4, SeqMonotonic
<1> QED BY <1>5 DEF waiting

LEMMA OrderInit == Init => Order!Init
<1> SUFFICES ASSUME Init PROVE Order!Init
  OBVIOUS
<1>1. eng.queue = <<>> /\ eng.index = -1 /\ \A i \in Elements : eng.el[i].run = "paused"
  BY DEF Init
<1> QED BY <1>1 DEF Order!Init, Sounding

LEMMA StepsOrder ==
    ASSUME NEW r, Steps(eng, r), Becomes(r)
    PROVE  Order!Move
<1>1. Same(r, eng') /\ r.index <= Len(r.queue)
  BY BecomesInv DEF Steps, Good, Located
<1>2. HeardOf(r) \ HeardOf(eng) \subseteq CurrentOf(r)
  BY BeginsHeard DEF Steps
<1>3. HeardOf(eng') = HeardOf(r) /\ CurrentOf(eng') = CurrentOf(r)
  BY <1>1 DEF Same, HeardOf, CurrentOf, Sounding
<1>4. Order!OnlyCurrentBegins
  BY <1>2, <1>3 DEF Order!OnlyCurrentBegins, Order!Current, HeardOf, CurrentOf
<1> QED BY <1>1, <1>4 DEF Order!Move, Steps, Same

LEMMA LoadOrder ==
    ASSUME Inv, NEW p \in Pages, NEW ok \in BOOLEAN, CallLoad(p, ok)
    PROVE  Order!Replace
<1> DEFINE r == Load(eng, p, ok)
<1>1. p \in Seq(Tracks) \ {<<>>}
  BY PagesAreTracks
<1>2. Good(r) /\ r.queue = p /\ r.index = 0 /\ ~Fading(r) /\ Becomes(r)
  BY <1>1, LoadGood DEF CallLoad, Inv
<1> HIDE DEF r
<1>3. Same(r, eng')
  BY <1>2, BecomesInv
<1>4. HeardOf(r) \subseteq CurrentOf(r)
  BY <1>1, <1>2, OneHeard
<1>5. HeardOf(eng') = HeardOf(r) /\ CurrentOf(eng') = CurrentOf(r)
  BY <1>3 DEF Same, HeardOf, CurrentOf, Sounding
<1> QED
  BY <1>1, <1>2, <1>3, <1>4, <1>5 DEF Order!Replace, Order!Current, HeardOf, CurrentOf, Same

LEMMA AppendOrder ==
    ASSUME Inv, NEW p \in Pages, NEW ok \in BOOLEAN, CallAppend(p, ok)
    PROVE  Order!Extend
<1> DEFINE r == AppendPage(eng, p, ok)
           more == Without(p, Skipped(eng))
<1>1. p \in Seq(Tracks) /\ eng.queue \in Seq(Tracks)
  BY PagesAreTracks DEF Inv, Good, Ready, Engines
<1>2. Good(r) /\ Begins(eng, r) /\ r.index = eng.index /\ r.queue = eng.queue \o more /\ Becomes(r)
  BY <1>1, AppendPageGood DEF CallAppend, Inv
<1>3. more \in Seq(Tracks \ Order!Waiting)
  BY <1>1, MoreIsNew DEF Inv, Order!Waiting
<1> HIDE DEF r, more
<1>4. Same(r, eng')
  BY <1>2, BecomesInv
<1>5. eng'.queue = eng.queue \o more /\ eng'.index = eng.index
  BY <1>2, <1>4 DEF Same
<1>6. more \in Seq(Tracks)
  BY <1>3, SeqMonotonic
<1>7. Len(eng'.queue) - Len(eng.queue) = Len(more) /\ Len(more) \in Nat
  BY <1>1, <1>5, <1>6
<1>8. more \in [1 .. Len(eng'.queue) - Len(eng.queue) -> Tracks \ Order!Waiting]
  <2> DEFINE n == Len(eng'.queue) - Len(eng.queue)
             T == Tracks \ Order!Waiting
  <2>1. n = Len(more)
    BY <1>7
  <2>2. more \in Seq(T)
    BY <1>3
  <2> HIDE DEF n, T
  <2>3. more \in [1 .. n -> T]
    BY <2>1, <2>2
  <2> QED BY <2>3 DEF n, T
<1>9. HeardOf(r) \ HeardOf(eng) \subseteq CurrentOf(r)
  BY <1>2, BeginsHeard
<1>10. HeardOf(eng') = HeardOf(r) /\ CurrentOf(eng') = CurrentOf(r)
  BY <1>4 DEF Same, HeardOf, CurrentOf, Sounding
<1>11. Order!OnlyCurrentBegins
  BY <1>9, <1>10 DEF Order!OnlyCurrentBegins, Order!Current, HeardOf, CurrentOf
<1> QED BY <1>5, <1>8, <1>11 DEF Order!Extend

LEMMA RemoveOrder ==
    ASSUME Inv, NEW t \in Tracks, CallRemove(t)
    PROVE  Order!Drop \/ UNCHANGED Order!vars
<1> DEFINE r == Remove(eng, t, TRUE)
<1>1. /\ Good(eng) /\ Becomes(r) /\ eng.attached /\ TRUE \in BOOLEAN
      /\ Len(eng.queue) \in Nat /\ eng.index \in Int
  <2>1. Good(eng) /\ Becomes(r) /\ eng.attached
    BY DEF CallRemove, Inv
  <2>2. eng \in Engines
    BY <2>1 DEF Good, Ready
  <2>3. Len(eng.queue) \in Nat /\ eng.index \in Int
    BY <2>2 DEF Engines
  <2> QED BY <2>1, <2>3
<1>2. CASE r = eng
  <2>1. Same(eng, eng')
    BY <1>1, <1>2, QuietGood DEF Becomes
  <2> QED BY <2>1 DEF Order!vars, Same, Sounding
<1>3. CASE r # eng
  <2>1. PICK i \in 0 .. Len(eng.queue) - 1 :
          /\ i >= eng.index
          /\ r.queue = SubSeq(eng.queue, 1, i) \o SubSeq(eng.queue, i + 2, Len(eng.queue))
          /\ Good(r) /\ Begins(eng, r) /\ r.index = eng.index
    BY <1>1, <1>3, RemoveGood
  <2> HIDE DEF r
  <2>2. Same(r, eng')
    BY <1>1, <2>1, BecomesInv
  <2>3. HeardOf(r) \ HeardOf(eng) \subseteq CurrentOf(r)
    BY <2>1, BeginsHeard
  <2>4. HeardOf(eng') = HeardOf(r) /\ CurrentOf(eng') = CurrentOf(r)
    BY <2>2 DEF Same, HeardOf, CurrentOf, Sounding
  <2>5. Order!OnlyCurrentBegins
    BY <2>3, <2>4 DEF Order!OnlyCurrentBegins, Order!Current, HeardOf, CurrentOf
  <2>6. eng'.queue = r.queue /\ eng'.index = eng.index
    BY <2>1, <2>2 DEF Same
  <2> DEFINE k == i + 1
  <2>7. k \in 1 .. Len(eng.queue) /\ k > eng.index /\ i = k - 1 /\ i + 2 = k + 1
    BY <1>1, <2>1
  <2> HIDE DEF k
  <2>8. eng'.queue = SubSeq(eng.queue, 1, k - 1) \o SubSeq(eng.queue, k + 1, Len(eng.queue))
    BY <2>1, <2>6, <2>7
  <2> QED BY <2>5, <2>6, <2>7, <2>8 DEF Order!Drop
<1> QED BY <1>2, <1>3

LEMMA NextOrder == Inv /\ [Next]_eng => [Order!Next]_Order!vars
<1> SUFFICES ASSUME Inv, [Next]_eng PROVE [Order!Next]_Order!vars
  OBVIOUS
<1>1. CASE UNCHANGED eng
  BY <1>1 DEF Order!vars, Sounding
<1>2. CASE Next
  <2>1. ASSUME NEW p \in Pages, NEW ok \in BOOLEAN, CallLoad(p, ok) PROVE Order!Next
    BY <2>1, LoadOrder DEF Order!Next
  <2>2. ASSUME NEW p \in Pages, NEW ok \in BOOLEAN, CallAppend(p, ok) PROVE Order!Next
    BY <2>2, AppendOrder DEF Order!Next
  <2>3. ASSUME NEW t \in Tracks, CallRemove(t) PROVE Order!Next \/ UNCHANGED Order!vars
    BY <2>3, RemoveOrder DEF Order!Next
  <2>4. ASSUME NEW r, Steps(eng, r), Becomes(r) PROVE Order!Next
    BY <2>4, StepsOrder DEF Order!Next
  <2> QED BY <1>2, <2>1, <2>2, <2>3, <2>4, NextSteps
<1> QED BY <1>1, <1>2

\* The engine keeps the order PlayOrder promises its owner: a track begins to
\* sound only as the current one, the position moves by one track at a time,
\* what is appended does not wait already, and only what was not played goes.
THEOREM OrderIsKept == Spec => KeepsOrder
<1>1. Spec => Order!Spec
  BY OrderInit, NextOrder, Invariance, PTL DEF Spec, Order!Spec
<1> QED BY <1>1 DEF KeepsOrder
=============================================================================
