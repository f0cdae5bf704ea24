-------------------------------- MODULE Epoll --------------------------------
(***************************************************************************)
(* The epoll backend (epoll.c): the table fds, which says for each         *)
(* descriptor which event waits for reading and which for writing, and the *)
(* interest set of the kernel, whose entries point into that table.        *)
(***************************************************************************)
EXTENDS BackendOps

\* slots, nfds: the table; block: where it is.  Kernel: interest, and ptr, the
\* block data.ptr of an entry points into.
epoll_init ==
    [slots |-> NoSlots, nfds |-> Nfiles, block |-> 0,
     interest |-> NoInterest, ptr |-> [fd \in Fd |-> 0]]

\* epoll_add asks for room when fd >= nfds, and epoll_recalc makes some when
\* fd > nfds.
epoll_recalc(op, fd) ==
    IF fd <= op.nfds THEN op
    ELSE [op EXCEPT !.nfds = Doubled(@, fd),
                    !.block = IF Moves THEN @ + 1 ELSE @]

\* epoll_ctl: EPOLL_CTL_MOD if somebody waits for fd already.  The kernel
\* refuses to add what it has and to change what it does not have.
epoll_accepts(op, e) ==
    (Tracked(op.slots, ev_fd[e]) = {}) <=> (op.interest[ev_fd[e]] = {})

epoll_add(op, e) ==
    LET r == epoll_recalc(op, ev_fd[e]) IN
    [r EXCEPT !.interest[ev_fd[e]] = Tracked(r.slots, ev_fd[e]) \cup ev_events[e],
              !.ptr[ev_fd[e]] = r.block,
              !.slots = Fill(@, e)]

\* epoll_ctl fails: the slots are not filled.
epoll_refused(op, e) == epoll_recalc(op, ev_fd[e])

\* What is still waited for on the descriptor after e is gone.
epoll_remaining(op, e) ==
    IF ev_events[e] = Io THEN {} ELSE Tracked(op.slots, ev_fd[e]) \ ev_events[e]

\* The slots are cleared, then epoll_ctl is called and may find no entry.
epoll_del(op, e) ==
    LET fd == ev_fd[e]
        d == [op EXCEPT !.slots = Clear(@, fd, Io \ epoll_remaining(op, e))]
    IN  CASE fd >= op.nfds -> op
          [] fd < op.nfds /\ op.interest[fd] = {} -> d
          [] OTHER -> [d EXCEPT !.interest[fd] = epoll_remaining(op, e),
                                !.ptr[fd] = op.block]

epoll_wait(op) == op
epoll_watched(op) == op.interest
epoll_results(op, fd, what) == Slotwise(op.slots[fd], Happened(what))
epoll_entry(op, i, fd, what) == op

\* data.ptr of every entry points to the slot of its descriptor.
epoll_inside(op) ==
    \A fd \in Fd : op.interest[fd] # {} => fd < op.nfds /\ op.ptr[fd] = op.block
=============================================================================
