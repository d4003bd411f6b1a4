CONSTANTS
    Scenarios <- MCScenarios
    DocBefore <- MCDocBefore
SPECIFICATION Spec
INVARIANTS
    RoundTrip
    PositionsNest
    WalkReachesAll
    NoTokenAliased
    ScannerFollows
    DocGoesOnce
\* a file ends, and a derivation whose text would be read as other tokens
CHECK_DEADLOCK FALSE
