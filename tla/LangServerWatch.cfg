SPECIFICATION Spec
CONSTANTS
    f1 = f1
    f2 = f2
    v1 = v1
    v2 = v2
    v3 = v3
    r1 = r1
    Main = Main
    None = None
    Files <- MCFiles
    Versions <- MCVersions
    Broken <- NoneBroken
    Requests <- MCRequests
    InitialDisk <- MCDisk
    MaxMessages = 3
    WatchDuringIndexing = TRUE
CHECK_DEADLOCK FALSE
INVARIANT
    NeverUpdatesWhenComplete
