----------------------------- MODULE BackendOps -----------------------------
(***************************************************************************)
(* What the backends of libevent 1.4.3 have in common: the events they are *)
(* given, and tables with one slot per descriptor for the event that reads *)
(* and one for the event that writes.  A backend (modules Epoll, Select,   *)
(* Poll, Kqueue, Devpoll, Evport, Win32) is a record op, its private state *)
(* with the kernel's beside it, and functions of it:                       *)
(*   X_init           the record after the init function                   *)
(*   X_add(op, e)     the record after the add function                    *)
(*   X_del(op, e)     the record after the del function                    *)
(*   X_wait(op)       the record when the kernel starts to wait            *)
(*   X_watched(op)    what the kernel then watches of each descriptor      *)
(*   X_results(op, fd, what)   what the dispatch passes to event_active    *)
(*   X_entry(op, i, fd, what)  the record after the i-th entry             *)
(* Signal events are in module Signal, the length of the wait in EventLoop.*)
(***************************************************************************)
EXTENDS Integers, Sequences, FiniteSets, SequencesExt

CONSTANTS
    Event, NULL,
    Fd,          \* the descriptors
    ev_fd,       \* [Event -> Fd]
    ev_events,   \* [Event -> SUBSET Io]
    ev_persist,  \* the events with EV_PERSIST
    Nfiles,      \* first size of a table: RLIMIT_NOFILE, NEVENT, 32, 16
    Moves        \* TRUE: realloc moves a block

Io == {"READ", "WRITE"}

ASSUME BackendAssumption ==
    /\ NULL \notin Event
    /\ Fd \subseteq Nat /\ ev_fd \in [Event -> Fd]
    /\ ev_events \in [Event -> (SUBSET Io) \ {{}}]
    /\ ev_persist \subseteq Event
    /\ Nfiles \in Nat \ {0} /\ Moves \in BOOLEAN

\* Tables indexed by descriptor; slots behind the end of a table are kept
\* apart by the sizes in the records.
NoSlots == [fd \in Fd |-> [d \in Io |-> NULL]]
Fill(slots, e) ==
    [slots EXCEPT ![ev_fd[e]] = [d \in Io |-> IF d \in ev_events[e] THEN e ELSE @[d]]]
Clear(slots, fd, dirs) ==
    [slots EXCEPT ![fd] = [d \in Io |-> IF d \in dirs THEN NULL ELSE @[d]]]
Tracked(slots, fd) == {d \in Io : slots[fd][d] # NULL}

Nothing == [e \in Event |-> {}]
NoInterest == [fd \in Fd |-> {}]

\* Each slot's event is activated for its own direction.
Slotwise(slot, dirs) == [e \in Event |-> {d \in dirs : slot[d] = e}]

\* "while (n < max) n <<= 1"
Doubled(n, max) ==
    CHOOSE m \in {n * 2^k : k \in 0..max} : m >= max /\ (m = n \/ m \div 2 < max)

\* A hang-up or an error (POLLHUP, POLLERR) counts as both directions.
Happened(what) == IF "HUP" \in what THEN Io ELSE what
=============================================================================
