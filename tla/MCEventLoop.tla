----------------------------- MODULE MCEventLoop -----------------------------
(***************************************************************************)
(* Instances of EventLoop for TLC: which events exist and what each waits  *)
(* for.  The .cfg files choose among them.                                 *)
(***************************************************************************)
EXTENDS EventLoop

CONSTANTS sigpair, io, tmr, sig, once

\* What each structure is for; an instance takes the ones it needs.
Kind ==
    [e \in {sigpair, io, tmr, sig, once} |->
        CASE e = sigpair -> {"READ", "PERSIST"}
          [] e = io      -> {"READ"}
          [] e = tmr     -> {}
          [] e = sig     -> {"SIGNAL", "PERSIST"}
          [] e = once    -> {}]

KindOf == [e \in Event |-> Kind[e]]

Blocking   == {{}}
AnyFlags   == {{}, {"ONCE"}, {"NONBLOCK"}}
=============================================================================
