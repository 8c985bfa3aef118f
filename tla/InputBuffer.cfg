CONSTANTS
    FileLen = 11
    SubStart = 2
    SubLength = 7
    BlockSize = 2
    BlockTable <- MCBlockTable
    FirstBlock = 2
    HeaderSize = 1
    BlockLength = 5
    PadStart = 1
    LogicalSize = 2
    PhysicalSize = 3
    Skips <- MCSkips
    SegmentSizes <- MCSegmentSizes
    BufSize = 6
    CodeSizes = {1, 6, 13, 25}
    LongSizes = {32}
    SkipSizes = {5, 16, 27}
    ValueSizes = {2, 4}
    StartOffsets = {0, 1}
    Offsets = {0, 3, 4}

SPECIFICATION Spec
INVARIANTS
    TypeOK
    ReadsAreTheStream
    EndIsTheEnd
CHECK_DEADLOCK FALSE
