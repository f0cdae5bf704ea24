CONSTANTS
    Req = {1, 2}
    Scenario <- MCScenario
    Style = {"reply", "empty", "start", "error"}
    Socket = {1, 2}
    RetryMax = 1
    IntBits = 32
    MaxUpsets = 1
SPECIFICATION FairSpec
INVARIANTS RequestEndsOnce ConnectionsSound ServerAttends OwnAnswerIfClean
PROPERTY RequestEnds
CHECK_DEADLOCK FALSE
