------------------------------- MODULE Kqueue -------------------------------
(***************************************************************************)
(* The kqueue backend (kqueue.c): changes are collected and given to the   *)
(* kernel with the next wait; a filter of an event without EV_PERSIST goes *)
(* when it has fired (EV_ONESHOT).  EVFILT_SIGNAL is left out.             *)
(***************************************************************************)
EXTENDS BackendOps

\* inkernel: the events with EVLIST_X_KQINKERNEL.  Kernel: knotes, the udata
\* of each filter.
kq_init == [changes |-> <<>>, nevents |-> Nfiles, inkernel |-> {}, knotes |-> NoSlots]

kq_insert(op, kev) ==
    [op EXCEPT !.nevents = IF Len(op.changes) = @ THEN 2 * @ ELSE @,
               !.changes = Append(@, kev)]

\* One change for each direction of the event, reading first.
KqChanges(op, e, udata) ==
    FoldLeft(LAMBDA o, d : IF d \in ev_events[e]
                           THEN kq_insert(o, [fd |-> ev_fd[e], d |-> d, udata |-> udata])
                           ELSE o,
             op, <<"READ", "WRITE">>)

kq_add(op, e) == [KqChanges(op, e, e) EXCEPT !.inkernel = @ \cup {e}]


kq_del(op, e) ==
    IF e \notin op.inkernel THEN op
    ELSE [KqChanges(op, e, NULL) EXCEPT !.inkernel = @ \ {e}]

\* kevent applies the changes in order (EV_ADD replaces the udata; EV_DELETE
\* of what is not there is an error entry that kq_dispatch skips).
kq_wait(op) ==
    [op EXCEPT !.changes = <<>>,
               !.knotes = FoldLeft(LAMBDA k, c : [k EXCEPT ![c.fd][c.d] = c.udata],
                                   @, op.changes)]
kq_watched(op) == [fd \in Fd |-> Tracked(op.knotes, fd)]
kq_results(op, fd, what) == Slotwise(op.knotes[fd], what)
kq_entry(op, i, fd, what) ==
    LET fired == {op.knotes[fd][d] : d \in what} \ ev_persist
    IN  [op EXCEPT !.inkernel = @ \ fired,
                   !.knotes = Clear(@, fd, {d \in what : op.knotes[fd][d] \in fired})]

kq_inside(op) == Len(op.changes) <= op.nevents
=============================================================================
