------------------------------- MODULE Evport -------------------------------
(***************************************************************************)
(* The event ports backend (evport.c).  An association of a descriptor     *)
(* ends when it is reported; the descriptors of the last wait are kept in  *)
(* ed_pending and associated again before the next one.                    *)
(***************************************************************************)
EXTENDS BackendOps

CONSTANT PerGetn   \* EVENTS_PER_GETN, entries of one wait

ASSUME EvportAssumption == PerGetn \in Nat \ {0}

\* nfds: ed_nevents; pending: ed_pending, -1 for nothing.  Kernel: assoc.
evport_init ==
    [slots |-> NoSlots, nfds |-> Nfiles, pending |-> [i \in 1..PerGetn |-> -1],
     assoc |-> NoInterest]

grow(op, fd) == [op EXCEPT !.nfds = Doubled(@, fd + 1)]

reassociate(op, fd) ==
    IF Tracked(op.slots, fd) = {} THEN op
    ELSE [op EXCEPT !.assoc[fd] = Tracked(op.slots, fd)]

evport_add(op, e) ==
    reassociate([grow(op, ev_fd[e]) EXCEPT !.slots = Fill(@, e)], ev_fd[e])

\* port_associate fails: the slots stay filled.
evport_refused(op, e) == [grow(op, ev_fd[e]) EXCEPT !.slots = Fill(@, e)]

\* A descriptor that is pending is taken for not associated.
evport_del(op, e) ==
    LET fd == ev_fd[e]
        c == [op EXCEPT !.slots = Clear(@, fd, ev_events[e])]
        pend == SelectInSeq(op.pending, LAMBDA p : p = fd)
        left == Tracked(c.slots, fd)
    IN  CASE op.nfds < fd -> op
          [] op.nfds >= fd /\ pend = 0 /\ left = {} -> [c EXCEPT !.assoc[fd] = {}]
          [] op.nfds >= fd /\ pend = 0 /\ left # {} -> reassociate(c, fd)
          [] op.nfds >= fd /\ pend # 0 /\ left = {} -> [c EXCEPT !.pending[pend] = -1]
          [] OTHER -> c

\* Mutant: what was pending is forgotten without being associated.
evport_wait_forgets(op) == [op EXCEPT !.pending = [i \in 1..PerGetn |-> -1]]

evport_wait(op) ==
    FoldLeft(LAMBDA o, i :
                IF o.pending[i] # -1 /\ Tracked(o.slots, o.pending[i]) # {}
                THEN [reassociate(o, o.pending[i]) EXCEPT !.pending[i] = -1] ELSE o,
             op, [i \in 1..PerGetn |-> i])
evport_watched(op) == op.assoc

\* The event of a direction gets everything that was reported, also what it
\* does not wait for; a hang-up alone is given to nobody.
evport_results(op, fd, what) ==
    [e \in Event |-> IF \E d \in what \cap Io : op.slots[fd][d] = e
                     THEN what \cap Io ELSE {}]
evport_entry(op, i, fd, what) ==
    [op EXCEPT !.assoc[fd] = {}, !.pending[i] = fd]

\* The assertion of evport_dispatch, for every slot that is used.
evport_inside(op) ==
    \A fd \in Fd : Tracked(op.slots, fd) # {} \/ op.assoc[fd] # {} => fd < op.nfds
=============================================================================
