\* A fetch of artists out of attempts: the genres are never scored.
SPECIFICATION FairSpec
CONSTANTS
    w1 = w1
    w2 = w2
    c1 = c1
    c2 = c2
    s1 = s1
    s2 = s2
    Workers <- OneWorker
    Supervisor = supervisor
    Callers <- OneCaller
    Nobody = nobody
    Scans <- OneScan
    NoScan = noscan
    NumFolders = 1
    MaxAttempts = 3
    MaxCrashes = 0
    MusicBrainz = TRUE
    MaxBatches = 1
    FailingTasks <- FetchTasks
PROPERTIES
    ScoringFollows
CHECK_DEADLOCK FALSE
