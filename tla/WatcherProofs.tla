---------------------------- MODULE WatcherProofs ----------------------------
(***************************************************************************)
(* For any durations and any number of timer threads: no change is left    *)
(* without a timer, and no change waits longer than the maximum wait (or   *)
(* the cooldown, if that is longer) for its scan to be queued.             *)
(***************************************************************************)
EXTENDS Watcher, TLAPS

\* Some timer fires before the first change has waited too long.
TimerInTime ==
    dirty => \E t \in Timers :
        \/ thread[t] = "firing" /\ age <= Patience
        \/ thread[t] = "waiting" /\ left[t] + age <= Patience

\* A change in the cooldown is younger than the cooldown.
CooldownInTime == dirty => cooling = 0 \/ age + cooling <= Cooldown

\* self._dirty and self._first_change are set and cleared together.
AgeKnown == (dirty => age \in Nat) /\ (~dirty => age = NoChange)

IInv == TypeOK /\ AgeKnown /\ TimerInTime /\ CooldownInTime

LEMMA Durations ==
    /\ Quiet \in Nat /\ MaxWait \in Nat /\ Cooldown \in Nat
    /\ Patience \in Nat /\ MaxWait <= Patience /\ Cooldown <= Patience
BY Constants DEF Patience, AtLeast

\* What on_any_event's timer waits for fits what its change may still wait.
LEMMA DelayFits ==
    ASSUME NEW a \in Nat, NEW c \in 0..Cooldown, a <= Patience, c = 0 \/ a + c <= Cooldown
    PROVE  /\ AtLeast(AtMost(Quiet, MaxWait - a), c) \in Nat
           /\ AtLeast(AtMost(Quiet, MaxWait - a), c) + a <= Patience
<1>1. CASE Quiet <= MaxWait - a /\ Quiet >= c
  BY <1>1, Durations DEF AtLeast, AtMost
<1>2. CASE Quiet <= MaxWait - a /\ ~(Quiet >= c)
  BY <1>2, Durations DEF AtLeast, AtMost
<1>3. CASE ~(Quiet <= MaxWait - a) /\ MaxWait - a >= c
  BY <1>3, Durations DEF AtLeast, AtMost
<1>4. CASE ~(Quiet <= MaxWait - a) /\ ~(MaxWait - a >= c)
  BY <1>4, Durations DEF AtLeast, AtMost
<1> QED BY <1>1, <1>2, <1>3, <1>4

LEMMA InitInv == Init => IInv
<1> SUFFICES ASSUME Init PROVE IInv
  OBVIOUS
<1>1. ~dirty /\ age = NoChange
  BY DEF Init
<1>2. calm \in 1..Quiet /\ cooling \in 0..Cooldown
  BY Constants DEF Init
<1>3. /\ thread \in [Timers -> {"off", "waiting", "firing", "queuing"}]
      /\ left \in [Timers -> Nat]
  BY DEF Init
<1>4. /\ event = "none" /\ stirred \in BOOLEAN /\ dirty \in BOOLEAN
      /\ unseen \subseteq Kinds /\ fate \in Fates
  BY DEF Init, Fates
<1>5. timer \in Timers \cup {NoTimer} /\ age \in Nat \cup {NoChange} /\ scan = "idle"
  BY DEF Init
<1>6. TypeOK
  BY <1>2, <1>3, <1>4, <1>5 DEF TypeOK
<1> QED BY <1>1, <1>6 DEF IInv, AgeKnown, TimerInTime, CooldownInTime

LEMMA EventInv == IInv /\ OnAnyEvent => IInv'
<1> SUFFICES ASSUME IInv, OnAnyEvent PROVE IInv'
  OBVIOUS
<1> DEFINE delay == AtLeast(AtMost(Quiet, MaxWait - age'), cooling)
<1>1. /\ dirty' = TRUE /\ event' = "none" /\ stirred' = TRUE
      /\ age' = IF age = NoChange THEN 0 ELSE age
      /\ UNCHANGED <<cooling, calm, scan, unseen, fate>>
      /\ Schedule(timer, delay)
  BY DEF OnAnyEvent, scanVars
<1>2. age' \in Nat /\ cooling \in 0..Cooldown
  BY <1>1 DEF IInv, TypeOK
<1>3. age' <= Patience /\ (cooling = 0 \/ age' + cooling <= Cooldown)
  <2>1. CASE dirty
    <3>1. age \in Nat /\ age' = age
      BY <1>1, <2>1, Constants DEF IInv, AgeKnown
    <3>2. age <= Patience
      BY <2>1, <3>1, Durations DEF IInv, TypeOK, TimerInTime
    <3> QED BY <2>1, <3>1, <3>2 DEF IInv, CooldownInTime
  <2>2. CASE ~dirty
    <3>1. age' = 0
      BY <1>1, <2>2 DEF IInv, AgeKnown
    <3> QED BY <1>2, <3>1, Durations
  <2> QED BY <2>1, <2>2
<1>4. delay \in Nat /\ delay + age' <= Patience
  BY <1>2, <1>3, DelayFits
<1> HIDE DEF delay
<1>7. PICK t \in NewThread :
        /\ thread' = [u \in Timers |->
              IF u = t THEN "waiting"
              ELSE IF u = timer /\ thread[u] = "waiting" THEN "off"
              ELSE thread[u]]
        /\ left' = [left EXCEPT ![t] = delay]
        /\ timer' = t
  BY <1>1 DEF Schedule
<1>n. t \in Timers
  BY DEF NewThread
<1>8. thread'[t] = "waiting" /\ left'[t] = delay
  BY <1>7, <1>n DEF IInv, TypeOK
<1>9. TypeOK'
  BY <1>1, <1>2, <1>4, <1>7, <1>n DEF IInv, TypeOK
<1> QED BY <1>1, <1>2, <1>3, <1>4, <1>8, <1>9, <1>n DEF IInv, AgeKnown, TimerInTime, CooldownInTime

LEMMA TickInv == IInv /\ Tick => IInv'
<1> SUFFICES ASSUME IInv, Tick PROVE IInv'
  OBVIOUS
<1>1. /\ left' = [t \in Timers |-> AtLeast(left[t] - 1, 0)]
      /\ age' = IF age = NoChange THEN NoChange ELSE AtMost(age + 1, Patience + 1)
      /\ cooling' = AtLeast(cooling - 1, 0)
      /\ calm' = IF stirred THEN 1 ELSE AtMost(calm + 1, Quiet)
      /\ stirred' = FALSE
      /\ UNCHANGED <<thread, timer, dirty, event, scan, unseen, fate>>
      /\ \A t \in Timers : thread[t] # "firing" /\ (thread[t] = "waiting" => left[t] > 0)
  BY DEF Tick, NothingDue, scanVars
<1>2. TypeOK'
  <2>1. left' \in [Timers -> Nat]
    BY <1>1 DEF IInv, TypeOK, AtLeast
  <2>2. age' \in Nat \cup {NoChange} /\ cooling' \in 0..Cooldown /\ calm' \in 1..Quiet
    BY <1>1, Durations, Constants DEF IInv, TypeOK, AtLeast, AtMost
  <2> QED BY <1>1, <2>1, <2>2 DEF IInv, TypeOK
<1>3. ASSUME dirty PROVE age' \in Nat /\ age' <= age + 1 /\ age \in Nat
  BY <1>1, <1>3, Durations, Constants DEF IInv, AgeKnown, AtMost
<1>4. AgeKnown'
  BY <1>1, <1>3 DEF IInv, AgeKnown
<1>5. TimerInTime'
  <2> SUFFICES ASSUME dirty
               PROVE  \E t \in Timers : thread[t] = "waiting" /\ left'[t] + age' <= Patience
    BY <1>1, <1>3, Durations DEF TimerInTime
  <2>1. PICK t \in Timers : thread[t] = "waiting" /\ left[t] + age <= Patience /\ left[t] > 0
    BY <1>1 DEF IInv, TimerInTime
  <2>2. left'[t] = left[t] - 1 /\ left[t] \in Nat
    BY <1>1, <2>1 DEF IInv, TypeOK, AtLeast
  <2> QED BY <1>3, <2>1, <2>2, Durations
<1>6. CooldownInTime'
  BY <1>1, <1>3, Durations DEF IInv, TypeOK, CooldownInTime, AtLeast
<1> QED BY <1>2, <1>4, <1>5, <1>6 DEF IInv

LEMMA TimerInv == ASSUME NEW t \in Timers, IInv, TimerThread(t) \/ QueueFails(t) PROVE IInv'
<1> USE DEF handlerVars, clockVars, fileVars, scanVars
<1>t. thread \in [Timers -> {"off", "waiting", "firing", "queuing"}] /\ left \in [Timers -> Nat]
  BY DEF IInv, TypeOK
<1>1. CASE TimerExpires(t)
  <2>1. /\ thread' = [thread EXCEPT ![t] = "firing"] /\ thread[t] = "waiting" /\ left[t] = 0
        /\ UNCHANGED <<left, timer, dirty, age, cooling, event, calm, stirred, scan, unseen, fate>>
    BY <1>1 DEF TimerExpires
  <2>2. TypeOK' /\ AgeKnown' /\ CooldownInTime'
    BY <2>1 DEF IInv, TypeOK, AgeKnown, CooldownInTime
  <2>3. TimerInTime'
    BY <1>t, <2>1 DEF IInv, TimerInTime, AgeKnown, Patience
  <2> QED BY <2>2, <2>3 DEF IInv
<1>2. CASE NothingToDo(t)
  BY <1>2 DEF NothingToDo, IInv, TypeOK, AgeKnown, TimerInTime, CooldownInTime
<1>3. CASE WaitForCooldown(t)
  <2>1. PICK u \in Timers : /\ thread[u] = "off" /\ thread[t] = "firing" /\ dirty /\ cooling > 0
                            /\ thread' = [thread EXCEPT ![t] = "off", ![u] = "waiting"]
                            /\ left' = [left EXCEPT ![u] = cooling]
                            /\ timer' = u
                            /\ UNCHANGED <<dirty, age, cooling, event, calm, stirred, scan, unseen, fate>>
    BY <1>3 DEF WaitForCooldown, NewThread
  <2>2. TypeOK' /\ AgeKnown' /\ CooldownInTime'
    BY <2>1, Durations DEF IInv, TypeOK, AgeKnown, CooldownInTime
  <2>3. thread'[u] = "waiting" /\ left'[u] = cooling
    BY <1>t, <2>1
  <2>4. cooling + age <= Patience
    BY <2>1, Durations DEF IInv, TypeOK, AgeKnown, CooldownInTime
  <2> QED BY <2>1, <2>2, <2>3, <2>4 DEF IInv, TimerInTime
<1>4. CASE Trigger(t)
  <2>1. /\ thread' = [thread EXCEPT ![t] = "queuing"]
        /\ timer' = NoTimer /\ age' = NoChange /\ cooling' = Cooldown
        /\ UNCHANGED <<left, event, calm, stirred, scan, unseen, fate>>
    BY <1>4 DEF Trigger
  <2>2. dirty' = FALSE
    BY <1>4 DEF Trigger
  <2>3. cooling' \in 0..Cooldown /\ age' \in Nat \cup {NoChange}
    BY <2>1, Durations
  <2>4. thread' \in [Timers -> {"off", "waiting", "firing", "queuing"}]
    BY <1>t, <2>1
  <2>5. dirty' \in BOOLEAN /\ timer' \in Timers \cup {NoTimer}
    BY <2>1, <2>2
  <2>6. TypeOK'
    BY <2>1, <2>3, <2>4, <2>5 DEF IInv, TypeOK
  <2> QED BY <2>1, <2>2, <2>6 DEF IInv, AgeKnown, TimerInTime, CooldownInTime
<1>5. CASE QueueScan(t) \/ QueueFails(t)
  <2>1. /\ thread' = [thread EXCEPT ![t] = "off"] /\ thread[t] = "queuing"
        /\ UNCHANGED <<left, timer, dirty, age, cooling, event, calm, stirred, unseen>>
        /\ scan' \in {"active", scan} /\ fate' \in Fates
    BY <1>5 DEF QueueScan, QueueFails, Fates
  <2>2. TypeOK' /\ AgeKnown' /\ CooldownInTime'
    BY <2>1 DEF IInv, TypeOK, AgeKnown, CooldownInTime
  <2>3. TimerInTime'
    BY <1>t, <2>1 DEF IInv, TimerInTime
  <2> QED BY <2>2, <2>3 DEF IInv
<1> QED BY <1>1, <1>2, <1>3, <1>4, <1>5 DEF TimerThread, MaybeTrigger

\* The steps of the disk and of the scans, and events the handler ignores.
OtherStep ==
    \/ \E kind \in Kinds : Change(kind)
    \/ ChangeBeside \/ IgnoreEvent
    \/ OtherScan \/ ReadFiles \/ ImportFails \/ FinishScan

LEMMA OtherInv ==
    IInv /\ (OtherStep \/ UNCHANGED vars) => IInv'
<1> SUFFICES ASSUME IInv, OtherStep \/ UNCHANGED vars PROVE IInv'
  OBVIOUS
<1> USE DEF timerVars, handlerVars, clockVars, fileVars, scanVars
<1>1. /\ UNCHANGED <<thread, left, timer, dirty, age, cooling, calm>>
      /\ stirred' \in {stirred, TRUE}
  BY DEF OtherStep, Change, ChangeBeside, IgnoreEvent, OtherScan, ReadFiles, ImportFails, FinishScan, vars
<1>2. event' \in {"none", "music", "other"}
  BY Constants DEF OtherStep, Change, ChangeBeside, IgnoreEvent, OtherScan, ReadFiles, ImportFails, FinishScan,
         vars, IInv, TypeOK
<1>3. scan' \in {"idle", "active", "read"}
  <2>1. scan \in {"idle", "active", "read"}
    BY DEF IInv, TypeOK
  <2>2. scan' \in {"idle", "active", "read", scan}
    BY DEF OtherStep, Change, ChangeBeside, IgnoreEvent, OtherScan, ReadFiles, ImportFails, FinishScan, vars
  <2> QED BY <2>1, <2>2
<1>5. fate' \in Fates
  BY DEF OtherStep, Change, ChangeBeside, IgnoreEvent, OtherScan, ReadFiles, ImportFails, FinishScan,
         vars, IInv, TypeOK, Fates
<1>6. unseen' \subseteq Kinds
  <2>1. unseen \subseteq Kinds
    BY DEF IInv, TypeOK
  <2>2. unseen' = {} \/ unseen' = unseen \/ \E kind \in Kinds : unseen' = unseen \cup {kind}
    BY DEF OtherStep, Change, ChangeBeside, IgnoreEvent, OtherScan, ReadFiles, ImportFails, FinishScan, vars
  <2> QED BY <2>1, <2>2
<1>4. TypeOK'
  BY <1>1, <1>2, <1>3, <1>5, <1>6 DEF IInv, TypeOK
<1> QED BY <1>1, <1>4 DEF IInv, AgeKnown, TimerInTime, CooldownInTime, Patience

\* The invariant on which both theorems rest.
THEOREM TimerAlwaysInTime == Spec => []IInv
<1>1. IInv /\ [Next]_vars => IInv'
  BY EventInv, TickInv, TimerInv, OtherInv DEF Next, OtherStep
<1> QED BY InitInv, <1>1, PTL DEF Spec

\* Whatever is cancelled, and however late, a change that no scan was queued
\* for has a timer (on_any_event, _maybe_trigger).
THEOREM Remembered == Spec => []NoChangeForgotten
<1>1. IInv => NoChangeForgotten
  BY DEF IInv, TimerInTime, NoChangeForgotten
<1> QED BY <1>1, TimerAlwaysInTime, PTL

\* No change waits longer than max_wait_seconds or cooldown_seconds.
THEOREM BoundedWait == Spec => []WaitBounded
<1>1. IInv => WaitBounded
  BY Durations DEF IInv, TypeOK, AgeKnown, TimerInTime, WaitBounded
<1> QED BY <1>1, TimerAlwaysInTime, PTL

\* A request on its way: what may still read a change.
OnItsWay ==
    \/ event = "music" \/ dirty \/ scan = "active"
    \/ \E t \in Timers : thread[t] = "queuing"

\* Every step keeps a request on its way until the change is read, or says
\* how the request ended.
LEMMA KeptOnItsWay ==
    ASSUME TypeOK, "music" \in unseen /\ fate = "open" => OnItsWay, [Next]_vars
    PROVE  "music" \in unseen' /\ fate' = "open" => OnItsWay'
<1> SUFFICES ASSUME "music" \in unseen', fate' = "open" PROVE OnItsWay'
  OBVIOUS
<1> USE DEF timerVars, handlerVars, clockVars, fileVars, scanVars
<1>t. thread \in [Timers -> {"off", "waiting", "firing", "queuing"}]
  BY DEF TypeOK
<1>1. CASE \E kind \in Kinds : Change(kind)
  BY <1>1 DEF Change, OnItsWay, TypeOK
<1>2. CASE OnAnyEvent
  BY <1>2 DEF OnAnyEvent, OnItsWay
<1>3. CASE ReadFiles \/ ImportFails
  BY <1>3 DEF ReadFiles, ImportFails
<1>4. CASE ChangeBeside \/ IgnoreEvent \/ OtherScan \/ FinishScan \/ Tick \/ UNCHANGED vars
  <2>1. "music" \in unseen /\ fate = "open" /\ thread' = thread /\ dirty' = dirty
    BY <1>4 DEF ChangeBeside, IgnoreEvent, OtherScan, FinishScan, Tick, vars
  <2>2. (event = "music" => event' = "music") /\ (scan = "active" => scan' = "active")
    BY <1>4 DEF ChangeBeside, IgnoreEvent, OtherScan, FinishScan, Tick, vars
  <2> QED BY <2>1, <2>2 DEF OnItsWay
<1>5. ASSUME NEW t \in Timers, TimerThread(t) \/ QueueFails(t) PROVE OnItsWay'
  <2>1. event' = event /\ unseen' = unseen
    BY <1>5 DEF TimerThread, MaybeTrigger, TimerExpires, NothingToDo, WaitForCooldown, Trigger,
                QueueScan, QueueFails
  <2>2. CASE TimerExpires(t) \/ NothingToDo(t)
    <3>1. /\ fate' = fate /\ dirty' = dirty /\ scan' = scan /\ thread[t] # "queuing"
          /\ \E s \in {"firing", "off"} : thread' = [thread EXCEPT ![t] = s]
      BY <2>2 DEF TimerExpires, NothingToDo
    <3> QED BY <1>t, <2>1, <3>1 DEF OnItsWay
  <2>3. CASE WaitForCooldown(t)
    BY <2>3 DEF WaitForCooldown, OnItsWay
  <2>4. CASE Trigger(t)
    <3>1. thread'[t] = "queuing"
      BY <1>t, <2>4 DEF Trigger
    <3> QED BY <3>1 DEF OnItsWay
  <2>5. CASE QueueScan(t)
    BY <2>5 DEF QueueScan, OnItsWay, TypeOK
  <2>6. CASE QueueFails(t)
    BY <2>6 DEF QueueFails
  <2> QED BY <1>5, <2>2, <2>3, <2>4, <2>5, <2>6 DEF TimerThread, MaybeTrigger
<1> QED BY <1>1, <1>2, <1>3, <1>4, <1>5 DEF Next

\* A change that nothing will read any more was lost in one of the three ways
\* that are known: the call failed, met a scan past it, or its import failed.
THEOREM LossesKnown == Spec => []LostOnlyKnownWays
<1> DEFINE Way == "music" \in unseen /\ fate = "open" => OnItsWay
<1>1. Init => Way
  BY DEF Init
<1>2. IInv /\ Way /\ [Next]_vars => Way'
  BY KeptOnItsWay DEF IInv
<1>3. Way => LostOnlyKnownWays
  BY DEF OnItsWay, LostOnlyKnownWays
<1> QED BY <1>1, <1>2, <1>3, TimerAlwaysInTime, PTL DEF Spec
=============================================================================
