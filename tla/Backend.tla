------------------------------- MODULE Backend -------------------------------
(***************************************************************************)
(* What event_base_loop expects of a backend (struct eventop): it watches  *)
(* the events it was given, and a dispatch reports only events that are    *)
(* registered, for conditions they wait for.  EventLoop takes this as the  *)
(* behaviour of its actions ActivateIo; module Backends has the backends.  *)
(***************************************************************************)
CONSTANTS Event, ev_events

VARIABLES
    registered,  \* the events with EVLIST_INSERTED
    reported     \* what the running dispatch passed to event_active

Init ==
    /\ registered = {}
    /\ reported = [e \in Event |-> {}]

Add(e) ==
    /\ e \notin registered
    /\ registered' = registered \cup {e}
    /\ UNCHANGED reported

Del(e) ==
    /\ e \in registered
    /\ registered' = registered \ {e}
    /\ UNCHANGED reported

\* Some events are reported; a backend may delete what it reports
\* (devpoll_dispatch).
Report ==
    /\ \A e \in Event : reported'[e] # reported[e] =>
          /\ e \in registered
          /\ reported[e] \subseteq reported'[e] /\ reported'[e] \subseteq ev_events[e]
    /\ registered' \subseteq registered
    /\ \A e \in registered \ registered' : reported'[e] # {}

\* The dispatch returns.
Return ==
    /\ reported' = [e \in Event |-> {}]
    /\ UNCHANGED registered

Next ==
    \/ \E e \in Event : Add(e) \/ Del(e)
    \/ Report
    \/ Return

Spec == Init /\ [][Next]_<<registered, reported>>
=============================================================================
