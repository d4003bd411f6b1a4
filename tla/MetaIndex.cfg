SPECIFICATION Spec
CONSTANTS
    a = a
    b = b
    c = c
    C = C
    F = F
    G = G
    nothing = nothing
    class = class
    short = short
    long = long
    all = all
    None = None
    Files <- MCFiles
    Versions <- MCVersions
    ClassNames <- MCClassNames
    FunctionNames <- MCFunctionNames
    LastingNames <- MCLastingNames
    Classes <- MCClasses
    Length <- MCLength
    Lasting <- MCLasting
INVARIANTS
    SymbolsAreDeclared
    BatchIndexComplete
PROPERTY
    NamesLeaveWithADeclaration
