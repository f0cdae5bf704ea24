SPECIFICATION Spec
CONSTANTS
    sigpair = sigpair
    io = io
    tmr = tmr
    sig = sig
    once = once
    Event = {sigpair, io, tmr}
    ev_signal = sigpair
    ev_events <- KindOf
    use_monotonic = TRUE
    Once = {}
    NPri = 2
    Timeouts = {1}
    Ncalls = {1}
    LoopFlags <- Blocking
    Refusable = {}
    UseSigcb = FALSE
    MaxClock = 2
    MaxSkew = 0
INVARIANTS CountersExact ActiveQueuesExact NoFatalError NeverOversleeps TimerNotEarly ArmedStaysScheduled
PROPERTIES  UrgentQueueFirst
CHECK_DEADLOCK FALSE
