------------------------------- MODULE MCSignal -------------------------------
(***************************************************************************)
(* Instances of Signal for TLC: a persistent event and one that is not, on *)
(* a signal each or both on one.                                           *)
(***************************************************************************)
EXTENDS Signal

CONSTANTS keep, single, usr1, usr2

OwnSignals == [e \in Event |-> IF e = keep THEN usr1 ELSE usr2]
SameSignal == [e \in Event |-> usr1]
=============================================================================
