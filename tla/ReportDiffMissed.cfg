SPECIFICATION Spec
CONSTANTS
    a = a
    b = b
    MaxEdit = 2
    Files <- MCFiles
    MaxConcurrency = 1
    Inputs <- MCInputs
INVARIANT
    AllChangesChecked
