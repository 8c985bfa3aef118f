CONSTANTS
    LastCoeff = 4
    RunLimit = 1
    SlicePower = 0
    NoBlock = NoBlock
    Layouts <- MCLayouts
    DCCode <- MCDCCode
    ACCode <- MCACCode
    BufferSizes = {1, 2, 5}
    Scans = 2
    Caller = "handle"

SPECIFICATION Spec
INVARIANTS
    StreamReachesEnd
CHECK_DEADLOCK FALSE
