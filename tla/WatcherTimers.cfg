\* Timers that race with events, calls that fail, changes that may never stop.
SPECIFICATION FairSpec
CONSTANTS
    t1 = t1
    t2 = t2
    t3 = t3
    t4 = t4
    t5 = t5
    Quiet = 2
    MaxWait = 4
    Cooldown = 2
    Timers <- FourTimers
    NoTimer = notimer
    NoChange = nochange
    QueueMayFail = TRUE
    ImportMayFail = TRUE
    Kinds = {"music"}
INVARIANTS NoChangeForgotten WaitBounded LostOnlyKnownWays

PROPERTIES RequestFollows ReadOrKnownWhy
