SPECIFICATION Spec
CONSTANTS
    sigpair = sigpair
    io = io
    tmr = tmr
    sig = sig
    once = once
    Event = {sigpair, once, sig}
    ev_signal = sigpair
    ev_events <- KindOf
    use_monotonic = FALSE
    Once = {once}
    NPri = 1
    Timeouts = {}
    Ncalls = {1}
    LoopFlags <- AnyFlags
    Refusable = {sig}
    UseSigcb = TRUE
    MaxClock = 1
    MaxSkew = 1
INVARIANTS  SignalsWatched
CHECK_DEADLOCK FALSE
