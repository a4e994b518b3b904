\* Files change and folders fail during scans, but nothing moves; one file has
\* no duration.
SPECIFICATION Spec
CONSTANTS
    p1 = p1
    p2 = p2
    p3 = p3
    f1 = f1
    f2 = f2
    v1 = v1
    v2 = v2
    v3 = v3
    Paths <- ThreePaths
    Folders <- TwoFolders
    FolderOf <- FolderOfThree
    Versions <- TwoVersions
    NoFile = nofile
    Like <- SecondSilent
    Changes = {"add", "remove", "edit", "unmount"}
    DuringScan = TRUE
    PlayedInScan = FALSE
    OverKnown = TRUE
    FilesMayFail = TRUE
    FoldersMayFail = TRUE
    MaxChanges = 3
    MaxScans = 2
SYMMETRY AlikePaths
CHECK_DEADLOCK FALSE
INVARIANTS TypeOK HistoryKept
