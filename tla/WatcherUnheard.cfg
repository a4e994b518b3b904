\* A change without an event for a music file.
SPECIFICATION FairSpec
CONSTANTS
    t1 = t1
    t2 = t2
    t3 = t3
    t4 = t4
    t5 = t5
    Quiet = 2
    MaxWait = 3
    Cooldown = 1
    Timers <- FourTimers
    NoTimer = notimer
    NoChange = nochange
    QueueMayFail = FALSE
    ImportMayFail = FALSE
    Kinds = {"music", "other"}

PROPERTIES EveryKindIsRead
