\* Two scans, no crash, folder imports that raise.
SPECIFICATION FairSpec
CONSTANTS
    w1 = w1
    w2 = w2
    c1 = c1
    c2 = c2
    s1 = s1
    s2 = s2
    Workers <- MCWorkers
    Supervisor = supervisor
    Callers <- OneCaller
    Nobody = nobody
    Scans <- TwoScans
    NoScan = noscan
    NumFolders = 1
    MaxAttempts = 2
    MaxCrashes = 0
    MusicBrainz = TRUE
    MaxBatches = 1
    FailingTasks <- FolderTasks
PROPERTIES
    ScanEnds
    RefreshFollows
CHECK_DEADLOCK FALSE
