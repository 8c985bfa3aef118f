CONSTANTS
    Variants = {"G", "H", "I", "Brimstone"}
    N1 = 1
    N2 = 1
    N3 = 0
    MaxUnits = 3
    Units = 10
    TextUnits = 3
    BreathBlocks = 1
    GlueReset = 2
    MergeLimit = 5
    MoveRange = 4
    NContexts = 3
    NTables = 3
SPECIFICATION Spec
INVARIANTS TypeOK DataKept UnitsAccounted StampsTrue
CHECK_DEADLOCK FALSE
