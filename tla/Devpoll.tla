------------------------------- MODULE Devpoll -------------------------------
(***************************************************************************)
(* The /dev/poll backend (devpoll.c): changes are collected and written to *)
(* the device with the next wait or when there is no room for more.  The   *)
(* driver adds what it is told to what it has of a descriptor; POLLREMOVE  *)
(* removes everything.                                                     *)
(***************************************************************************)
EXTENDS BackendOps

POLLREMOVE == {"REMOVE"}

\* Kernel: watched.
devpoll_init ==
    [slots |-> NoSlots, nfds |-> Nfiles, changes |-> <<>>, nevents |-> Nfiles,
     watched |-> NoInterest]

devpoll_commit(op) ==
    [op EXCEPT !.changes = <<>>,
               !.watched = FoldLeft(LAMBDA w, c :
                                       [w EXCEPT ![c.fd] = IF c.events = POLLREMOVE THEN {}
                                                           ELSE @ \cup c.events],
                                    @, op.changes)]

devpoll_queue(op, fd, events) ==
    LET r == IF Len(op.changes) >= op.nevents THEN devpoll_commit(op) ELSE op
    IN  [r EXCEPT !.changes = Append(@, [fd |-> fd, events |-> events])]

\* devpoll_add asks for room when fd >= nfds, devpoll_recalc makes some when
\* fd > nfds.
devpoll_recalc(op, fd) ==
    IF fd > op.nfds THEN [op EXCEPT !.nfds = Doubled(@, fd)] ELSE op

\* No other event may wait for the same direction.
devpoll_accepts(op, e) ==
    \A d \in ev_events[e] : op.slots[ev_fd[e]][d] \in {NULL, e}

devpoll_add(op, e) ==
    [devpoll_queue(devpoll_recalc(op, ev_fd[e]), ev_fd[e], ev_events[e])
        EXCEPT !.slots = Fill(@, e)]

\* POLLREMOVE, and again what another event still waits for.
devpoll_del(op, e) ==
    LET fd == ev_fd[e]
        left == IF ev_events[e] = Io THEN {}
                ELSE Tracked(op.slots, fd) \ ev_events[e]
        r == devpoll_queue(op, fd, POLLREMOVE)
        q == IF left = {} THEN r ELSE devpoll_queue(r, fd, left)
    IN  IF fd >= op.nfds THEN op
        ELSE [q EXCEPT !.slots = Clear(@, fd, Io \ left)]

devpoll_wait(op) == IF op.changes = <<>> THEN op ELSE devpoll_commit(op)
devpoll_watched(op) == op.watched
devpoll_results(op, fd, what) == Slotwise(op.slots[fd], Happened(what))

\* devpoll_dispatch deletes the events without EV_PERSIST before they are
\* activated, the one that reads first.
devpoll_deleted(op, fd, what) ==
    {op.slots[fd][d] : d \in Happened(what)} \ (ev_persist \cup {NULL})
devpoll_entry(op, i, fd, what) ==
    FoldLeft(LAMBDA o, d : IF op.slots[fd][d] \in devpoll_deleted(op, fd, what)
                              /\ o.slots[fd][d] # NULL
                           THEN devpoll_del(o, op.slots[fd][d]) ELSE o,
             op, SelectSeq(<<"READ", "WRITE">>, LAMBDA d : d \in Happened(what)))

\* The assertion of devpoll_dispatch, for every slot that is used.
devpoll_inside(op) ==
    /\ Len(op.changes) <= op.nevents
    /\ \A fd \in Fd : Tracked(op.slots, fd) # {} \/ op.watched[fd] # {} => fd < op.nfds
=============================================================================
