SPECIFICATION FairPipelineSpec
CONSTANTS
    w1 = w1
    w2 = w2
    w3 = w3
    f1 = f1
    f2 = f2
    f3 = f3
    NoFile = NoFile
    Workers <- MCWorkers
    Files <- MCFiles
    Size <- MCSize
    ChanCap = 1
    ReportsCap = 3
    MaxFileSize = 2
INVARIANTS
    PipelineTypeOK
    SoftLimit
    LimiterAccounting
    NoFileTwice
    ReturnsEverything
PROPERTIES
    Terminates
    ImplementsBatch
