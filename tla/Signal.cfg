SPECIFICATION FairSpec
CONSTANTS
    keep = keep
    single = single
    usr1 = usr1
    usr2 = usr2
    Event = {keep, single}
    Sig = {usr1, usr2}
    EVENT_SIGNAL <- OwnSignals
    Persistent = {keep}
    ev_signal = ev_signal
    Timers = TRUE
    ShortBits = 2
    RecvMax = 2
    SocketCap = 3
    MaxCaught = 3
INVARIANTS
    
    SignalNotForgotten
    RecvNeverBlocks

    
CHECK_DEADLOCK FALSE
