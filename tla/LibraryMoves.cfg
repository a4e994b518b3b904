\* Files change between scans, and two of them may look alike.
SPECIFICATION Spec
CONSTANTS
    p1 = p1
    p2 = p2
    p3 = p3
    f1 = f1
    f2 = f2
    v1 = v1
    v2 = v2
    v3 = v3
    Paths <- ThreePaths
    Folders <- TwoFolders
    FolderOf <- FolderOfThree
    Versions <- ThreeVersions
    NoFile = nofile
    Like <- SameSize
    Changes = {"add", "remove", "edit", "move"}
    DuringScan = FALSE
    PlayedInScan = FALSE
    OverKnown = TRUE
    FilesMayFail = TRUE
    FoldersMayFail = FALSE
    MaxChanges = 3
    MaxScans = 2
SYMMETRY Alike
CHECK_DEADLOCK FALSE
INVARIANTS OneTrackPerPath HistoryKept Reconciled HistoryFollows
