\* The failure handler of a given-up folder task is lost.
SPECIFICATION Spec
CONSTANTS
    w1 = w1
    w2 = w2
    c1 = c1
    c2 = c2
    s1 = s1
    s2 = s2
    Workers <- OneWorker
    Supervisor = supervisor
    Callers <- OneCaller
    Nobody = nobody
    Scans <- OneScan
    NoScan = noscan
    NumFolders = 1
    MaxAttempts = 3
    MaxCrashes = 1
    MusicBrainz = TRUE
    MaxBatches = 1
    FailingTasks <- FolderTasks
INVARIANTS
    FolderJobHasTask
CHECK_DEADLOCK FALSE
