SPECIFICATION Spec
CONSTANTS
    c1 = c1
    c2 = c2
    v1 = v1
    v2 = v2
    i1 = i1
    i2 = i2
    i3 = i3
    i4 = i4
    i5 = i5
    i6 = i6
    Callers <- MCCallers
    Versions <- MCVersions
    Broken <- MCBroken
    Absent = Absent
    Committed <- MCCommitted
    MaxSize = 2
    Size <- MCSize
    Build <- MCBuild
    Inodes <- MCInodes
    None = None
    Garbled = Garbled
    MaxEdits = 1
    MaxFaults = 1
VIEW View
INVARIANTS
    EntriesRight
    LostOnlyWhenContended
    TmpIsRemoved
