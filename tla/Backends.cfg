SPECIFICATION Spec
CONSTANTS
    both = both
    rd = rd
    wr = wr
    far = far
    LastFd = 3
    Event = {both, rd, wr, far}
    NULL = NULL
    Fd <- Descriptors
    ev_fd <- FdOf
    ev_events <- WaitsFor
    ev_persist = {both, wr}
    Nfiles = 2
    NfdBits = 2
    PerGetn = 2
    Moves = FALSE
    Evsels = {"epoll", "select", "poll", "kqueue", "devpoll", "evport", "win32"}
    Refusing = {"epoll"}
    MaxChanges = 5
INVARIANTS WatchedExactly 
 
