-------------------------------- MODULE Win32 --------------------------------
(***************************************************************************)
(* The Windows backend (WIN32-Code/win32.c): two arrays of sockets, and a  *)
(* tree of entries that know their place in them.  A place 0 stands for    *)
(* read_pos or write_pos -1.                                               *)
(***************************************************************************)
EXTENDS BackendOps

win32_init ==
    [set |-> [d \in Io |-> <<>>], setsz |-> Nfiles, tree |-> {},
     pos |-> [fd \in Fd |-> [d \in Io |-> 0]], slots |-> NoSlots]

realloc_fd_sets(op, size) == [op EXCEPT !.setsz = size]
get_event_entry(op, fd) == [op EXCEPT !.tree = @ \cup {fd}]

do_fd_set(op, fd, d) ==
    LET r == IF Len(op.set[d]) = op.setsz THEN realloc_fd_sets(op, 2 * op.setsz) ELSE op
    IN  IF op.pos[fd][d] # 0 THEN op
        ELSE [r EXCEPT !.set[d] = Append(@, fd), !.pos[fd][d] = Len(r.set[d]) + 1]


\* The last socket of the array takes the place of this one.
do_fd_clear(op, fd, d) ==
    LET i == op.pos[fd][d]
        c == [op EXCEPT !.set[d] = Front([@ EXCEPT ![i] = Last(op.set[d])]), !.pos[fd][d] = 0]
    IN  CASE i = 0 -> op
          [] i # 0 /\ i = Len(op.set[d]) -> c
          [] OTHER -> [c EXCEPT !.pos[Last(op.set[d])][d] = i]

\* Both directions of an event, reading first.
ForEach(Op(_, _, _), op, fd, dirs) ==
    FoldLeft(LAMBDA o, d : IF d \in dirs THEN Op(o, fd, d) ELSE o, op, <<"READ", "WRITE">>)

win32_insert(op, e) ==
    [ForEach(do_fd_set, get_event_entry(op, ev_fd[e]), ev_fd[e], ev_events[e])
        EXCEPT !.slots = Fill(@, e)]

win32_del(op, e) ==
    LET fd == ev_fd[e]
        its == {d \in Io : op.slots[fd][d] = e}
        c == [ForEach(do_fd_clear, op, fd, its) EXCEPT !.slots = Clear(@, fd, its)]
    IN  IF fd \notin op.tree THEN op
        ELSE [c EXCEPT !.tree = IF Tracked(c.slots, fd) = {} THEN @ \ {fd} ELSE @]

\* fd_set_copy, and select on the copies; what is in the set of exceptions is
\* reported as reading.
win32_wait(op) == op
win32_watched(op) == [fd \in Fd |-> {d \in Io : fd \in Range(op.set[d])}]
win32_results(op, fd, what) ==
    IF fd \in op.tree THEN Slotwise(op.slots[fd], what) ELSE Nothing
win32_entry(op, i, fd, what) == op

\* Every entry of the tree knows its places, every socket has an entry.
win32_inside(op) ==
    \A d \in Io :
        /\ Len(op.set[d]) <= op.setsz
        /\ Range(op.set[d]) \subseteq op.tree
        /\ \A fd \in Fd : op.pos[fd][d] # 0 =>
              fd \in op.tree /\ op.pos[fd][d] <= Len(op.set[d])
              /\ op.set[d][op.pos[fd][d]] = fd
=============================================================================
