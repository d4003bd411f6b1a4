SPECIFICATION Spec
CONSTANTS
    a = a
    b = b
    good = good
    bad = bad
    worse = worse
    Files <- MCFiles
    Versions <- MCVersions
    Bad <- MCBad
    Absent = Absent
    DevNull = DevNull
    Configs <- MCConfigs
INVARIANTS
    IndexIsTheNewTree
    RunExact
