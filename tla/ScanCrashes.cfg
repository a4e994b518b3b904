\* One scan of two folders, two workers, tasks that raise, one crash.
SPECIFICATION Spec
CONSTANTS
    w1 = w1
    w2 = w2
    c1 = c1
    c2 = c2
    s1 = s1
    s2 = s2
    Workers <- MCWorkers
    Supervisor = supervisor
    Callers <- OneCaller
    Nobody = nobody
    Scans <- OneScan
    NoScan = noscan
    NumFolders = 2
    MaxAttempts = 3
    MaxCrashes = 1
    MusicBrainz = TRUE
    MaxBatches = 1
    FailingTasks <- FolderAndFinalizeTasks
INVARIANTS
    TypeOK
    ExactlyOneFinalizer
PROPERTIES
    PruneAfterImports
CHECK_DEADLOCK FALSE
