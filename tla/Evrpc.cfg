CONSTANTS
    Rpc = {1, 2, 3}
    Con = {11, 12}
    Timed = TRUE
    Refusals = {FALSE}
    Careless = FALSE
    MaxUpsets = 2
SPECIFICATION FairSpec
INVARIANTS RpcEndsOnce TimeoutHitsOwn NoUseAfterFree
PROPERTY RpcEnds
CHECK_DEADLOCK FALSE
