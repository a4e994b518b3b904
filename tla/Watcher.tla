------------------------------- MODULE Watcher -------------------------------
(***************************************************************************)
(* The folder watcher (watcher.py): file system events arrive on one       *)
(* thread, each (re)starts a timer, and the timer's own thread queues a    *)
(* library scan once the changes are quiet.                                *)
(*                                                                         *)
(* A threading.Timer that is cancelled after its wait is over still runs:  *)
(* the thread looks at the cancel flag before it asks for the handler's    *)
(* lock.  Such a thread is "firing" here.                                  *)
(*                                                                         *)
(* Time is counted in ticks; a tick passes only when nothing is due.  The  *)
(* scan is reduced to when it reads the files (ScanPipeline has the rest). *)
(***************************************************************************)
EXTENDS Integers

CONSTANTS
    Quiet,      \* QUIET_SECONDS
    MaxWait,    \* MAX_WAIT_SECONDS
    Cooldown,   \* cooldown_seconds
    Timers,     \* timer threads alive at a time: bounds how many can be
    NoTimer,    \* self._timer is None
    NoChange,   \* self._first_change is None
    QueueMayFail, \* queue_scan may raise
    ImportMayFail, \* a file or folder may fail to import
    Kinds       \* the kinds of event that a change of music files may have

ASSUME Constants ==
    /\ Quiet \in Nat \ {0}
    /\ MaxWait \in Nat \ {0}
    /\ Cooldown \in Nat
    /\ NoTimer \notin Timers
    /\ NoChange \notin Nat
    /\ QueueMayFail \in BOOLEAN
    /\ ImportMayFail \in BOOLEAN
    /\ Kinds \subseteq {"music", "other"}

VARIABLES
    thread,   \* what each timer thread does: "off", "waiting", "firing", "queuing"
    left,     \* ticks until a waiting timer fires
    timer,    \* self._timer
    dirty,    \* self._dirty
    age,      \* ticks since self._first_change
    cooling,  \* ticks until self._next_allowed
    event,    \* the event on its way to the handler: "none", "music" if it is a
              \* file's that is called like a music file, "other" if it is not
    calm,     \* ticks since the last event of an earlier tick
    stirred,  \* an event was handled in this tick
    scan,     \* "idle", "active": queued, files not read yet, "read": read, not finished
    unseen,   \* the kinds of change on disk that no scan has read
    fate      \* how their last request ended: "open" if it may still be answered

timerVars == <<thread, left, timer>>
handlerVars == <<dirty, age, cooling>>
clockVars == <<calm, stirred>>
fileVars == <<unseen, fate>>
scanVars == <<scan, unseen, fate>>
vars == <<thread, left, timer, dirty, age, cooling, event, calm, stirred, scan, unseen, fate>>

Fates == {"open", "call failed", "scan past it", "import failed"}

AtMost(a, b) == IF a <= b THEN a ELSE b
AtLeast(a, b) == IF a >= b THEN a ELSE b

Init ==
    /\ thread = [t \in Timers |-> "off"]
    /\ left = [t \in Timers |-> 0]
    /\ timer = NoTimer
    /\ dirty = FALSE
    /\ age = NoChange
    /\ cooling = 0
    /\ event = "none"
    /\ calm = Quiet
    /\ stirred = FALSE
    /\ scan = "idle"
    /\ unseen = {}
    /\ fate = "open"

\* Music files change, with an event for a music file or with another one
\* only: a file that gets a name that is not music's, a directory moved out.
\* One event per tick: the bound on how many changes an instant can have.
Change(kind) ==
    /\ event = "none" /\ ~stirred
    /\ event' = kind
    /\ unseen' = unseen \cup {kind}
    /\ fate' = IF kind = "music" THEN "open" ELSE fate
    /\ UNCHANGED <<timerVars, handlerVars, clockVars, scan>>

\* Something else changes: a cover, a playlist.
ChangeBeside ==
    /\ event = "none" /\ ~stirred
    /\ event' = "other"
    /\ UNCHANGED <<timerVars, handlerVars, clockVars, scanVars>>

\* A thread that is not alive; which one does not matter.
NewThread == {t \in Timers : thread[t] = "off" /\ t = CHOOSE u \in Timers : thread[u] = "off"}

\* _schedule: cancel the timer the handler knows of, if it still waits, and
\* start another.
Schedule(known, delay) ==
    \E t \in NewThread :
        /\ thread' = [u \in Timers |->
            IF u = t THEN "waiting"
            ELSE IF u = known /\ thread[u] = "waiting" THEN "off"
            ELSE thread[u]]
        /\ left' = [left EXCEPT ![t] = delay]
        /\ timer' = t

\* Mistake: no maximum wait.
OnAnyEventForever ==
    /\ event = "music"
    /\ event' = "none"
    /\ stirred' = TRUE
    /\ dirty' = TRUE
    /\ age' = IF age = NoChange THEN 0 ELSE age
    /\ Schedule(timer, AtLeast(Quiet, cooling))
    /\ UNCHANGED <<cooling, calm, scanVars>>

\* Mistake: an event in the cooldown is dropped.
OnAnyEventUnlessCooling ==
    /\ event = "music"
    /\ event' = "none"
    /\ stirred' = TRUE
    /\ IF cooling > 0
       THEN UNCHANGED <<timerVars, dirty, age>>
       ELSE /\ dirty' = TRUE
            /\ age' = IF age = NoChange THEN 0 ELSE age
            /\ Schedule(timer, AtMost(Quiet, MaxWait - age'))
    /\ UNCHANGED <<cooling, calm, scanVars>>

\* on_any_event with an event that is not a music file's.
IgnoreEvent ==
    /\ event = "other"
    /\ event' = "none"
    /\ stirred' = TRUE
    /\ UNCHANGED <<timerVars, handlerVars, calm, scanVars>>

\* on_any_event, which holds the handler's lock throughout.
OnAnyEvent ==
    /\ event = "music"
    /\ event' = "none"
    /\ stirred' = TRUE
    /\ dirty' = TRUE
    /\ age' = IF age = NoChange THEN 0 ELSE age
    /\ Schedule(timer, AtLeast(AtMost(Quiet, MaxWait - age'), cooling))
    /\ UNCHANGED <<cooling, calm, scanVars>>

\* The wait of a timer that was not cancelled is over.
TimerExpires(t) ==
    /\ thread[t] = "waiting"
    /\ left[t] = 0
    /\ thread' = [thread EXCEPT ![t] = "firing"]
    /\ UNCHANGED <<left, timer, handlerVars, event, clockVars, scanVars>>

\* _maybe_trigger forgets self._timer, whichever timer that is by now, and
\* finds nothing to do ...
NothingToDo(t) ==
    /\ thread[t] = "firing"
    /\ ~dirty
    /\ thread' = [thread EXCEPT ![t] = "off"]
    /\ timer' = NoTimer
    /\ UNCHANGED <<left, handlerVars, event, clockVars, scanVars>>

\* Mistake: a change in the cooldown is dropped, and the timer for it cancelled.
DropInCooldown(t) ==
    /\ thread[t] = "firing"
    /\ dirty
    /\ cooling > 0
    /\ thread' = [u \in Timers |->
            IF u = t \/ (u = timer /\ thread[u] = "waiting") THEN "off" ELSE thread[u]]
    /\ timer' = NoTimer
    /\ UNCHANGED <<left, handlerVars, event, clockVars, scanVars>>

\* ... or starts another timer for the end of the cooldown ...
WaitForCooldown(t) ==
    /\ thread[t] = "firing"
    /\ dirty
    /\ cooling > 0
    /\ \E u \in NewThread :
        /\ thread' = [thread EXCEPT ![t] = "off", ![u] = "waiting"]
        /\ left' = [left EXCEPT ![u] = cooling]
        /\ timer' = u
    /\ UNCHANGED <<handlerVars, event, clockVars, scanVars>>

\* ... or goes on to queue a scan, the lock released.
Trigger(t) ==
    /\ thread[t] = "firing"
    /\ dirty
    /\ cooling = 0
    /\ thread' = [thread EXCEPT ![t] = "queuing"]
    /\ timer' = NoTimer
    /\ dirty' = FALSE
    /\ age' = NoChange
    /\ cooling' = Cooldown
    /\ UNCHANGED <<left, event, clockVars, scanVars>>

\* queue_scan: queue_library_scan returns a scan that is still active, even
\* one that has read the files.
QueueScan(t) ==
    /\ thread[t] = "queuing"
    /\ thread' = [thread EXCEPT ![t] = "off"]
    /\ scan' = IF scan = "idle" THEN "active" ELSE scan
    /\ fate' = IF scan = "read" THEN "scan past it" ELSE "open"
    /\ UNCHANGED <<left, timer, handlerVars, event, clockVars, unseen>>

\* queue_scan raises: logged, and that is all.
QueueFails(t) ==
    /\ QueueMayFail
    /\ thread[t] = "queuing"
    /\ thread' = [thread EXCEPT ![t] = "off"]
    /\ fate' = "call failed"
    /\ UNCHANGED <<left, timer, handlerVars, event, clockVars, scan, unseen>>

\* A scan somebody else asks for.
OtherScan ==
    /\ scan = "idle"
    /\ scan' = "active"
    /\ UNCHANGED <<timerVars, handlerVars, event, clockVars, fileVars>>

\* import_folder reads the folder; the scan has more to do after it.
ReadFiles ==
    /\ scan = "active"
    /\ scan' = "read"
    /\ unseen' = {}
    /\ fate' = "open"
    /\ UNCHANGED <<timerVars, handlerVars, event, clockVars>>

\* A changed file cannot be imported, or its folder is given up; the scan goes on.
ImportFails ==
    /\ ImportMayFail
    /\ scan = "active"
    /\ scan' = "read"
    /\ fate' = "import failed"
    /\ UNCHANGED <<timerVars, handlerVars, event, clockVars, unseen>>

FinishScan ==
    /\ scan = "read"
    /\ scan' = "idle"
    /\ UNCHANGED <<timerVars, handlerVars, event, clockVars, fileVars>>

\* No thread has anything to do right now.
NothingDue ==
    /\ event = "none"
    /\ \A t \in Timers : thread[t] # "firing" /\ (thread[t] = "waiting" => left[t] > 0)

\* How long a change may have to wait for its scan to be queued.
Patience == AtLeast(MaxWait, Cooldown)

Tick ==
    /\ NothingDue
    /\ left' = [t \in Timers |-> AtLeast(left[t] - 1, 0)]
    /\ age' = IF age = NoChange THEN NoChange ELSE AtMost(age + 1, Patience + 1)
    /\ cooling' = AtLeast(cooling - 1, 0)
    /\ calm' = IF stirred THEN 1 ELSE AtMost(calm + 1, Quiet)
    /\ stirred' = FALSE
    /\ UNCHANGED <<thread, timer, dirty, event, scanVars>>

MaybeTrigger(t) == NothingToDo(t) \/ WaitForCooldown(t) \/ Trigger(t)

TimerThread(t) == TimerExpires(t) \/ MaybeTrigger(t) \/ QueueScan(t)

Next ==
    \/ \E kind \in Kinds : Change(kind)
    \/ ChangeBeside
    \/ OnAnyEvent \/ IgnoreEvent
    \/ \E t \in Timers : TimerThread(t) \/ QueueFails(t)
    \/ OtherScan \/ ReadFiles \/ ImportFails \/ FinishScan
    \/ Tick

Spec == Init /\ [][Next]_vars

\* Threads run, scans go on, and time passes.
Fairness ==
    /\ WF_vars(OnAnyEvent \/ IgnoreEvent)
    /\ \A t \in Timers : WF_vars(TimerThread(t))
    /\ WF_vars(ReadFiles \/ ImportFails)
    /\ WF_vars(FinishScan)
    /\ WF_vars(Tick)

FairSpec == Spec /\ Fairness
-----------------------------------------------------------------------------
(* Properties                                                              *)

TypeOK ==
    /\ thread \in [Timers -> {"off", "waiting", "firing", "queuing"}]
    /\ left \in [Timers -> Nat]
    /\ timer \in Timers \cup {NoTimer}
    /\ dirty \in BOOLEAN
    /\ age \in Nat \cup {NoChange}
    /\ cooling \in 0..Cooldown
    /\ event \in {"none", "music", "other"}
    /\ calm \in 1..Quiet
    /\ stirred \in BOOLEAN
    /\ scan \in {"idle", "active", "read"}
    /\ unseen \subseteq Kinds
    /\ fate \in Fates

\* A change that no scan was queued for has a timer, whatever was cancelled
\* or forgotten by then (on_any_event, _maybe_trigger: "deferred to its end
\* rather than dropped").
NoChangeForgotten == dirty => \E t \in Timers : thread[t] \in {"waiting", "firing"}

\* A change does not wait longer than max_wait_seconds, or than the cooldown,
\* even if the changes never stop.
WaitBounded == dirty => age <= Patience

\* ... and then a scan is queued for it.
RequestFollows == dirty ~> \E t \in Timers : thread[t] = "queuing"

\* A change of a music file is read by a scan, also one made while a scan is
\* past its reading, unless the request after it raised ("failed to queue
\* scan", _maybe_trigger), was answered with a scan past its reading, or its
\* import failed.
ReadOrKnownWhy == "music" \in unseen ~> ("music" \notin unseen \/ fate # "open")

\* No change is lost in any other way: one that nothing will read any more, no
\* event, timer, call or scan, has one of those three reasons.
LostOnlyKnownWays ==
    /\ "music" \in unseen
    /\ event # "music" /\ ~dirty /\ scan # "active"
    /\ \A t \in Timers : thread[t] # "queuing"
    => fate # "open"

\* Every change of a music file is read by a scan at last (start_watching,
\* "whenever music files under path change").
EveryChangeIsRead == "music" \in unseen ~> "music" \notin unseen

\* ... also one whose only event is a directory's, or of a file that has lost
\* its music file name.
EveryKindIsRead == "other" \in unseen ~> "other" \notin unseen

\* A scan is queued only when the changes were quiet for QUIET_SECONDS, or
\* the first has waited for MAX_WAIT_SECONDS.
QuietFirst ==
    [][\A t \in Timers : thread[t] = "firing" /\ thread'[t] = "queuing" =>
        calm = Quiet \/ age >= MaxWait]_vars
=============================================================================
