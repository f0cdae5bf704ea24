SPECIFICATION Spec
CONSTANTS
    Event = {e1, e2, e3, e4, e5, e6}
    Garbage = Garbage
    Time = {1, 2}
    FirstAlloc = 1
    MaxShift = 0
SYMMETRY Alike
INVARIANTS HeapSound
PROPERTY ImplementsTimerSet
CHECK_DEADLOCK FALSE
