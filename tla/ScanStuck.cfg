\* A trigger out of attempts leaves its scan active.
SPECIFICATION FairSpec
CONSTANTS
    w1 = w1
    w2 = w2
    c1 = c1
    c2 = c2
    s1 = s1
    s2 = s2
    Workers <- OneWorker
    Supervisor = supervisor
    Callers <- OneCaller
    Nobody = nobody
    Scans <- OneScan
    NoScan = noscan
    NumFolders = 1
    MaxAttempts = 3
    MaxCrashes = 0
    MusicBrainz = TRUE
    MaxBatches = 1
    FailingTasks <- TriggerTasks
PROPERTIES
    ScanEnds
CHECK_DEADLOCK FALSE
