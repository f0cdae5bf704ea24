-------------------------------- MODULE Poll --------------------------------
(***************************************************************************)
(* The poll backend (poll.c): an array of pollfds without holes, the       *)
(* events beside it, and the index of each descriptor in it.               *)
(***************************************************************************)
EXTENDS BackendOps

\* set: event_set with event_r_back and event_w_back; count: event_count;
\* idx: idxplus1_by_fd with its size fdcount.
poll_init == [set |-> <<>>, count |-> 0, idx |-> [fd \in Fd |-> 0], fdcount |-> 0]

\* Room for one more entry, and for the index of the descriptor.
PollRoom(op, fd) ==
    [op EXCEPT !.count = IF Len(op.set) + 1 < @ THEN @
                         ELSE IF @ < Nfiles THEN Nfiles ELSE 2 * @,
               !.fdcount = IF fd < @ THEN @
                           ELSE Doubled(IF @ < Nfiles THEN Nfiles ELSE 2 * @, fd + 1)]

poll_add(op, e) ==
    LET fd == ev_fd[e]
        r == PollRoom(op, fd)
        n == IF r.idx[fd] # 0 THEN r
             ELSE [r EXCEPT !.set = Append(@, [fd |-> fd, events |-> {},
                                               back |-> [d \in Io |-> NULL]]),
                            !.idx[fd] = Len(r.set) + 1]
        i == n.idx[fd]
    IN  [n EXCEPT !.set[i].events = @ \cup ev_events[e],
                  !.set[i].back = [d \in Io |-> IF d \in ev_events[e] THEN e ELSE @[d]]]

\* The last pollfd is shifted down into the unoccupied position i.
PollShift(op, i) ==
    IF i = Len(op.set) THEN [op EXCEPT !.set = Front(@)]
    ELSE [op EXCEPT !.set = Front([@ EXCEPT ![i] = Last(op.set)]),
                    !.idx[Last(op.set).fd] = i]

poll_del(op, e) ==
    LET i == op.idx[ev_fd[e]]
        c == [op EXCEPT !.set[i].events = @ \ ev_events[e],
                        !.set[i].back = [d \in Io |-> IF d \in ev_events[e]
                                                      THEN NULL ELSE @[d]]]
    IN  CASE i = 0 -> op
          [] i # 0 /\ c.set[i].events # {} -> c
          [] OTHER -> PollShift([c EXCEPT !.idx[ev_fd[e]] = 0], i)

poll_wait(op) == op
poll_watched(op) ==
    [fd \in Fd |-> UNION {op.set[i].events : i \in {j \in DOMAIN op.set :
                                                       op.set[j].fd = fd}}]

\* The entry is found by its place in the array.
poll_results(op, fd, what) ==
    LET i == CHOOSE j \in DOMAIN op.set : op.set[j].fd = fd
        res == Happened(what)
    IN  [e \in Event |-> IF \E d \in res : op.set[i].back[d] = e
                         THEN res \cap ev_events[e] ELSE {}]
poll_entry(op, i, fd, what) == op

\* poll_check_ok, and everything is inside its array.
poll_inside(op) ==
    /\ Len(op.set) <= op.count
    /\ \A fd \in Fd : op.idx[fd] # 0 =>
          fd < op.fdcount /\ op.idx[fd] <= Len(op.set) /\ op.set[op.idx[fd]].fd = fd
    /\ \A i \in DOMAIN op.set :
          /\ op.idx[op.set[i].fd] = i
          /\ op.set[i].events = {d \in Io : op.set[i].back[d] # NULL}
=============================================================================
