\* A retried prune meets the imports of the next scan.
SPECIFICATION Spec
CONSTANTS
    w1 = w1
    w2 = w2
    c1 = c1
    c2 = c2
    s1 = s1
    s2 = s2
    Workers <- OneWorker
    Supervisor = supervisor
    Callers <- OneCaller
    Nobody = nobody
    Scans <- TwoScans
    NoScan = noscan
    NumFolders = 1
    MaxAttempts = 3
    MaxCrashes = 0
    MusicBrainz = TRUE
    MaxBatches = 1
    FailingTasks <- FinalizeTasks
PROPERTIES
    PruneSeesNoImport
CHECK_DEADLOCK FALSE
