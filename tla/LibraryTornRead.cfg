\* A file is edited while it is read.
SPECIFICATION Spec
CONSTANTS
    p1 = p1
    p2 = p2
    p3 = p3
    f1 = f1
    f2 = f2
    v1 = v1
    v2 = v2
    v3 = v3
    Paths <- ThreePaths
    Folders <- TwoFolders
    FolderOf <- FolderOfThree
    Versions <- TwoVersions
    NoFile = nofile
    Like <- AllDiffer
    Changes = {"edit"}
    DuringScan = TRUE
    PlayedInScan = FALSE
    OverKnown = FALSE
    FilesMayFail = FALSE
    FoldersMayFail = FALSE
    MaxChanges = 1
    MaxScans = 2
CHECK_DEADLOCK FALSE
INVARIANTS TagsAsOnDisk
