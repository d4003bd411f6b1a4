SPECIFICATION FairSpec
CONSTANTS
    a = a
    b = b
    c = c
    t = t
    u = u
    i = i
    j = j
    Names <- MCNames
    Graphs <- MCGraphs
    Asked <- MCAsked
    Queries <- MCQueries
INVARIANTS
    TypeOK
    FoundIsInherited
    NotFoundMeansNowhere
    NearestWins
    ImplementsRight
PROPERTY LookupEnds
CHECK_DEADLOCK FALSE
