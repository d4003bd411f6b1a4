SPECIFICATION FairSpec
CONSTANTS
    f1 = f1
    f2 = f2
    v1 = v1
    v2 = v2
    v3 = v3
    r1 = r1
    Main = Main
    None = None
    Files <- MCFiles
    Versions <- MCVersionsBroken
    Broken <- MCBroken
    Requests <- MCRequests
    InitialDisk <- MCDisk
    MaxMessages = 3
    WatchDuringIndexing = FALSE
CHECK_DEADLOCK FALSE
INVARIANTS
    MutexOwned
    NeverUpdatesWhenComplete
    QuerySeesOneVersion
PROPERTIES
    DiagnosticsUseNewIndex
    Responsive
