------------------------------- MODULE TimerSet -------------------------------
(***************************************************************************)
(* What event.c expects of the timer heap: a set of events, each with the  *)
(* time it expires.  EventBase uses this view (the events that carry the   *)
(* flag TIMEOUT); MinHeap implements it.                                   *)
(***************************************************************************)
EXTENDS Integers

CONSTANTS Event, Time

VARIABLES members, ev_timeout

Init ==
    /\ members = {}
    /\ ev_timeout \in [Event -> Time]

\* event_queue_insert(EVLIST_TIMEOUT), after the caller set the time.
Insert(e, t) ==
    /\ e \notin members
    /\ members' = members \cup {e}
    /\ ev_timeout' = [ev_timeout EXCEPT ![e] = t]

\* event_queue_remove(EVLIST_TIMEOUT).
Remove(e) ==
    /\ e \in members
    /\ members' = members \ {e}
    /\ UNCHANGED ev_timeout

\* timeout_correct moves all members by the same amount.
Shift(off) ==
    /\ ev_timeout' = [e \in Event |-> IF e \in members THEN ev_timeout[e] - off
                                                       ELSE ev_timeout[e]]
    /\ UNCHANGED members

Next ==
    \/ \E e \in Event, t \in Time : Insert(e, t)
    \/ \E e \in Event : Remove(e)
    \/ Shift(1)

Spec == Init /\ [][Next]_<<members, ev_timeout>>
=============================================================================
