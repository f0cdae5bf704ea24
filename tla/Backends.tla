------------------------------ MODULE Backends ------------------------------
(***************************************************************************)
(* event_base_new picks one backend (evsel); event_add, event_del and the  *)
(* loop of event.c drive it through its eventop.  Here each backend of     *)
(* libevent 1.4.3 is driven in every order of additions, deletions, waits  *)
(* and callbacks, and is shown to do what module Backend asks of it.       *)
(***************************************************************************)
EXTENDS Epoll, Select, Poll, Kqueue, Devpoll, Evport, Win32

CONSTANTS
    Evsels,     \* the backends to choose from
    Refusing,   \* those whose kernel may refuse an addition
    MaxChanges  \* bound: changes kept for kevent

ASSUME BackendsAssumption ==
    /\ Evsels \subseteq {"epoll", "select", "poll", "kqueue", "devpoll", "evport", "win32"}
    /\ Refusing \subseteq {"epoll", "evport"} /\ MaxChanges \in Nat

VARIABLES
    evsel,
    op,         \* the private state of the backend, with the kernel's
    inserted,   \* the events with EVLIST_INSERTED
    active,     \* the events in an active queue
    reported    \* what the running dispatch passed to event_active

vars == <<evsel, op, inserted, active, reported>>

-----------------------------------------------------------------------------
(* struct eventop                                                          *)

EvselInit ==
    CASE evsel = "epoll" -> epoll_init
      [] evsel = "select" -> select_init
      [] evsel = "poll" -> poll_init
      [] evsel = "kqueue" -> kq_init
      [] evsel = "devpoll" -> devpoll_init
      [] evsel = "evport" -> evport_init
      [] evsel = "win32" -> win32_init

EvselAdd(e) ==
    CASE evsel = "epoll" -> epoll_add(op, e)
      [] evsel = "select" -> select_add(op, e)
      [] evsel = "poll" -> poll_add(op, e)
      [] evsel = "kqueue" -> kq_add(op, e)
      [] evsel = "devpoll" -> devpoll_add(op, e)
      [] evsel = "evport" -> evport_add(op, e)
      [] evsel = "win32" -> win32_insert(op, e)

EvselDel(e) ==
    CASE evsel = "epoll" -> epoll_del(op, e)
      [] evsel = "select" -> select_del(op, e)
      [] evsel = "poll" -> poll_del(op, e)
      [] evsel = "kqueue" -> kq_del(op, e)
      [] evsel = "devpoll" -> devpoll_del(op, e)
      [] evsel = "evport" -> evport_del(op, e)
      [] evsel = "win32" -> win32_del(op, e)

EvselWait ==
    CASE evsel = "epoll" -> epoll_wait(op)
      [] evsel = "select" -> select_wait(op)
      [] evsel = "poll" -> poll_wait(op)
      [] evsel = "kqueue" -> kq_wait(op)
      [] evsel = "devpoll" -> devpoll_wait(op)
      [] evsel = "evport" -> evport_wait(op)
      [] evsel = "win32" -> win32_wait(op)

EvselWatched(o) ==
    CASE evsel = "epoll" -> epoll_watched(o)
      [] evsel = "select" -> select_watched(o)
      [] evsel = "poll" -> poll_watched(o)
      [] evsel = "kqueue" -> kq_watched(o)
      [] evsel = "devpoll" -> devpoll_watched(o)
      [] evsel = "evport" -> evport_watched(o)
      [] evsel = "win32" -> win32_watched(o)

EvselResults(o, fd, what) ==
    CASE evsel = "epoll" -> epoll_results(o, fd, what)
      [] evsel = "select" -> select_results(o, fd, what)
      [] evsel = "poll" -> poll_results(o, fd, what)
      [] evsel = "kqueue" -> kq_results(o, fd, what)
      [] evsel = "devpoll" -> devpoll_results(o, fd, what)
      [] evsel = "evport" -> evport_results(o, fd, what)
      [] evsel = "win32" -> win32_results(o, fd, what)

EvselEntry(o, i, fd, what) ==
    CASE evsel = "epoll" -> epoll_entry(o, i, fd, what)
      [] evsel = "select" -> select_entry(o, i, fd, what)
      [] evsel = "poll" -> poll_entry(o, i, fd, what)
      [] evsel = "kqueue" -> kq_entry(o, i, fd, what)
      [] evsel = "devpoll" -> devpoll_entry(o, i, fd, what)
      [] evsel = "evport" -> evport_entry(o, i, fd, what)
      [] evsel = "win32" -> win32_entry(o, i, fd, what)

EvselInside ==
    CASE evsel = "epoll" -> epoll_inside(op)
      [] evsel = "select" -> select_inside(op)
      [] evsel = "poll" -> poll_inside(op)
      [] evsel = "kqueue" -> kq_inside(op)
      [] evsel = "devpoll" -> devpoll_inside(op)
      [] evsel = "evport" -> evport_inside(op)
      [] evsel = "win32" -> win32_inside(op)

\* The add function returns -1.
EvselAccepts(e) ==
    CASE evsel = "epoll" -> epoll_accepts(op, e)
      [] evsel = "devpoll" -> devpoll_accepts(op, e)
      [] OTHER -> TRUE
EvselRefused(e) ==
    IF evsel = "epoll" THEN epoll_refused(op, e) ELSE evport_refused(op, e)

\* How many entries one wait returns, and what an entry can say: a direction
\* that is watched or, where the kernel has it, a hang-up.
EvselLimit(o) ==
    CASE evsel \in {"kqueue", "devpoll"} -> o.nevents
      [] evsel = "epoll" -> Nfiles
      [] evsel = "evport" -> PerGetn
      [] OTHER -> Cardinality(Fd)
Conditions(watched) ==
    ((SUBSET watched) \ {{}}) \cup
        (IF evsel \in {"epoll", "poll", "devpoll", "evport"} THEN {{"HUP"}} ELSE {})

-----------------------------------------------------------------------------
(* event.c                                                                 *)

Init ==
    /\ evsel \in Evsels
    /\ op = EvselInit
    /\ inserted = {} /\ active = {}
    /\ reported = Nothing

Idle == reported = Nothing
Roomy == evsel = "kqueue" => Len(op.changes) < MaxChanges

\* event_add of an event that is neither inserted nor active.
Add(e) ==
    /\ Idle /\ Roomy /\ e \notin inserted \cup active /\ EvselAccepts(e)
    /\ op' = EvselAdd(e)
    /\ inserted' = inserted \cup {e}
    /\ UNCHANGED <<evsel, active, reported>>

\* The kernel refuses: event_add fails and the event is not inserted.
AddRefused(e) ==
    /\ Idle /\ e \notin inserted \cup active /\ evsel \in Refusing
    /\ op' = EvselRefused(e)
    /\ UNCHANGED <<evsel, inserted, active, reported>>

\* event_del: the event leaves its queues and the backend.
Del(e) ==
    /\ Idle /\ Roomy /\ e \in inserted \cup active
    /\ op' = IF e \in inserted THEN EvselDel(e) ELSE op
    /\ inserted' = inserted \ {e} /\ active' = active \ {e}
    /\ UNCHANGED <<evsel, reported>>

\* event_process_active, with a callback that does nothing: an event without
\* EV_PERSIST is deleted.  Less urgent events may stay active over a wait.
Process(e) ==
    /\ Idle /\ e \in active
    /\ IF e \in ev_persist
       THEN active' = active \ {e} /\ UNCHANGED <<evsel, op, inserted, reported>>
       ELSE Del(e)

\* The dispatch function: the kernel waits and returns what happened on some
\* of the descriptors, and every entry is handled in turn.
Dispatch(some, what) ==
    LET w == EvselWait
        order == SetToSeq(some)
        results == [e \in Event |-> UNION {EvselResults(w, fd, what[fd])[e] : fd \in some}]
        hit == {e \in Event : results[e] # {}}
        gone == IF evsel = "devpoll"
                THEN UNION {devpoll_deleted(w, fd, what[fd]) : fd \in some} ELSE {}
    IN  /\ Idle /\ Cardinality(some) <= EvselLimit(w)
        /\ op' = FoldLeft(LAMBDA o, i : EvselEntry(o, i, order[i], what[order[i]]),
                          w, [i \in 1..Len(order) |-> i])
        /\ reported' = results
        /\ active' = active \cup hit
        /\ inserted' = inserted \ gone
        /\ UNCHANGED evsel

\* The dispatch function returns.
Return ==
    /\ ~Idle /\ reported' = Nothing
    /\ UNCHANGED <<evsel, op, inserted, active>>

Next ==
    \/ \E e \in Event : Add(e) \/ AddRefused(e) \/ Del(e) \/ Process(e)
    \/ LET watched == EvselWatched(EvselWait) IN
       \E some \in SUBSET {fd \in Fd : watched[fd] # {}} :
       \E what \in {f \in [some -> Conditions(Io)] :
                       \A fd \in some : f[fd] \in Conditions(watched[fd])} :
          Dispatch(some, what)
    \/ Return

Spec == Init /\ [][Next]_vars

-----------------------------------------------------------------------------
(* Properties                                                              *)

\* What the kernel will watch in the next wait, all changes applied, is what
\* the inserted events wait for.  Else an event would never be reported
\* again, or a descriptor nobody handles would wake the loop at once, for
\* ever.  Event ports may keep an association nobody needs; it ends when it
\* is reported.
WatchedExactly ==
    Idle => LET watched == EvselWatched(EvselWait) IN
        /\ \A e \in inserted \ active : ev_events[e] \subseteq watched[ev_fd[e]]
        /\ evsel # "evport" => \A fd \in Fd : \A d \in watched[fd] :
              \E e \in inserted : ev_fd[e] = fd /\ d \in ev_events[e]


\* What a dispatch reports; event ports report also directions the event does
\* not wait for, which the mapping drops.
Promised == [e \in Event |-> IF evsel = "evport" THEN reported[e] \cap ev_events[e]
                             ELSE reported[e]]
Contract == INSTANCE Backend WITH registered <- inserted, reported <- Promised

=============================================================================
