\* Two or three items on a stream; exchanges with up to three records, the
\* buffer and the limits scaled down so that they are reached.
SPECIFICATION Spec
CONSTANTS
    Items <- MCItems
    MaxItems = 3
    Asks <- MCAsks
    Records <- MCRecords
    MaxRecords = 3
    Errs <- MCErrs
    BufLen = 100
    UdpMax = 90
    MAX_LABELS = 4
    MAX_ADDRS = 2
    NameMax = 12
INVARIANTS ItemsRecovered AnswersRecovered
CHECK_DEADLOCK FALSE
