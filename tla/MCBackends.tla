----------------------------- MODULE MCBackends -----------------------------
(***************************************************************************)
(* The backends for TLC.  Descriptor 1 has one event for reading and one   *)
(* for writing, descriptor 0 one persistent event for both, and the last   *)
(* one lies beyond the first tables.                                       *)
(***************************************************************************)
EXTENDS Backends

CONSTANTS both, rd, wr, far, LastFd

FdOf == [e \in Event |-> CASE e = both -> 0 [] e = far -> LastFd [] OTHER -> 1]

WaitsFor == [e \in Event |-> CASE e = both -> {"READ", "WRITE"}
                               [] e = wr   -> {"WRITE"}
                               [] OTHER    -> {"READ"}]

Descriptors == {0, 1, LastFd}
=============================================================================
