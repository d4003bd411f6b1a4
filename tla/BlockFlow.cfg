SPECIFICATION Spec
CONSTANT Menu <- MCMenu
INVARIANTS
    DeadCodeNeverRuns
    UndefinedUseReported
    UnusedNeverRead
    ContinueEndsSwitch
CHECK_DEADLOCK FALSE
