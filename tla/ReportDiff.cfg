SPECIFICATION FairSpec
CONSTANTS
    a = a
    b = b
    MaxEdit = 2
    Files <- MCFiles
    MaxConcurrency = 1
    Inputs <- MCInputs
INVARIANTS
    OnlyNewReports
    EveryFileOnce
    AdditionsReported
PROPERTY
    Returns
