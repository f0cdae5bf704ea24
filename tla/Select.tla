------------------------------- MODULE Select -------------------------------
(***************************************************************************)
(* The select backend (select.c): two fd_sets that grow by words, and two  *)
(* tables of events by descriptor.                                         *)
(***************************************************************************)
EXTENDS BackendOps

CONSTANT NfdBits   \* NFDBITS, descriptors per word of an fd_set

ASSUME SelectAssumption == NfdBits \in Nat \ {0}

howmany(x, y) == (x + y - 1) \div y

\* fds: event_fds, the highest descriptor; words: event_fdsz; in: the sets
\* event_readset_in and event_writeset_in.
select_init ==
    [fds |-> 0, words |-> howmany(Nfiles + 1, NfdBits), in |-> NoInterest,
     slots |-> NoSlots]

select_resize(op, words) == [op EXCEPT !.words = words]

select_add(op, e) ==
    LET fd == ev_fd[e]
        r == IF op.fds >= fd THEN op
             ELSE [select_resize(op, Doubled(op.words, howmany(fd + 1, NfdBits)))
                      EXCEPT !.fds = fd]
    IN  [r EXCEPT !.in[fd] = @ \cup ev_events[e], !.slots = Fill(@, e)]

select_del(op, e) ==
    IF op.fds < ev_fd[e] THEN op
    ELSE [op EXCEPT !.in[ev_fd[e]] = @ \ ev_events[e],
                    !.slots = Clear(@, ev_fd[e], ev_events[e])]

\* The sets are copied and select sees the descriptors up to event_fds.
select_wait(op) == op
select_watched(op) == [fd \in Fd |-> IF fd <= op.fds THEN op.in[fd] ELSE {}]

\* An event that reads and writes is activated once, for what it waits for.
select_results(op, fd, what) ==
    [e \in Event |-> IF \E d \in what : op.slots[fd][d] = e
                     THEN what \cap ev_events[e] ELSE {}]
select_entry(op, i, fd, what) == op

\* check_selectop: a bit is set exactly if there is an event; the highest
\* descriptor has its bit and slot.
select_inside(op) ==
    /\ op.fds < op.words * NfdBits
    /\ \A fd \in Fd : op.in[fd] = Tracked(op.slots, fd)
    /\ \A fd \in Fd : fd > op.fds => op.in[fd] = {}
=============================================================================
