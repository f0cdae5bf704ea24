CONSTANTS
    MinLen = 2
    PrintfLen = 1
    MaxRead = 2
    Cr <- MCCr
    Lf <- MCLf
    Loads <- MCLoads
    In = 4
    Out = 4
    Watermarks <- MCWatermarks
    MaxTunes = 3
    MaxUpsets = 1
SPECIFICATION FairSpec
INVARIANTS StreamsWhole TransfersScheduled
PROPERTY OutputDrains
CHECK_DEADLOCK FALSE
