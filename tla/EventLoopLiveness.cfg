SPECIFICATION FairSpec
CONSTANTS
    sigpair = sigpair
    io = io
    tmr = tmr
    sig = sig
    once = once
    Event = {sigpair, io, tmr}
    ev_signal = sigpair
    ev_events <- KindOf
    use_monotonic = TRUE
    Once = {}
    NPri = 1
    Timeouts = {1}
    Ncalls = {1}
    LoopFlags <- Blocking
    Refusable = {}
    UseSigcb = FALSE
    MaxClock = 1
    MaxSkew = 0
PROPERTIES
    TimersExpire
    ActiveServed
CHECK_DEADLOCK FALSE
