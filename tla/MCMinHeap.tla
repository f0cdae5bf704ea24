------------------------------ MODULE MCMinHeap ------------------------------
(***************************************************************************)
(* MinHeap for TLC.  Six events are the fewest for which an event erased   *)
(* in one branch is replaced by an earlier one of the other and has to     *)
(* rise; with FirstAlloc = 1 the array grows three times on the way.       *)
(***************************************************************************)
EXTENDS MinHeap, TLC

Alike == Permutations(Event)
=============================================================================
