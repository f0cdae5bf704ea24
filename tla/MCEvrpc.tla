------------------------------ MODULE MCEvrpc ------------------------------
(* The RPC layer for TLC: three RPCs over a pool of two connections. *)
EXTENDS Evrpc, TLC
=============================================================================
