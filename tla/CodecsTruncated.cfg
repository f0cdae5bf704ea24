\* A response longer than a packet may be.
SPECIFICATION Spec
CONSTANTS
    Items <- MCItems
    MaxItems = 0
    Asks <- MCAsks
    Records <- MCRecords
    MaxRecords = 3
    Errs <- MCErrs
    BufLen = 100
    UdpMax = 60
    MAX_LABELS = 4
    MAX_ADDRS = 2
    NameMax = 12
INVARIANT CutIsMarked
CHECK_DEADLOCK FALSE
