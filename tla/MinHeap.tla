------------------------------- MODULE MinHeap -------------------------------
(***************************************************************************)
(* The timer heap of libevent 1.4.3 (min_heap.h): an array in heap order,  *)
(* and in every event its own position min_heap_idx, by which an event is  *)
(* erased from the middle.  One action is one call, or one iteration of    *)
(* the loop in min_heap_shift_down_ or min_heap_shift_up_.  Positions      *)
(* count from 0 as in the code.  realloc does not fail.  min_heap_pop,     *)
(* which libevent never calls, is left out.                                *)
(***************************************************************************)
EXTENDS Integers, FiniteSets

CONSTANTS
    Event,
    Garbage,     \* what a slot holds that is not in use
    Time,        \* the times an event may be given
    FirstAlloc,  \* slots allocated at first (8 in the code)
    MaxShift     \* bound: how far timeout_correct moves the times down

ASSUME HeapAssumption ==
    /\ IsFiniteSet(Event) /\ Garbage \notin Event
    /\ Time \subseteq Int
    /\ FirstAlloc \in Nat \ {0}
    /\ MaxShift \in Nat

VARIABLES
    p,             \* the array, garbage from n on
    n,             \* elements in the heap
    a,             \* slots allocated
    min_heap_idx,  \* position of each event, NoIdx if it is in no heap
    ev_timeout,
    pc,            \* "idle", "down" or "up": the loop that runs
    hole,          \* hole_index
    elem,          \* e of the shift functions: it goes into the hole
    victim,        \* the event min_heap_erase removes, Garbage in a push
    moves          \* history: iterations of the two loops in this call

vars == <<p, n, a, min_heap_idx, ev_timeout, pc, hole, elem, victim, moves>>

\* min_heap_idx is unsigned: (unsigned)-1.
NoIdx == -1

Parent(i) == (i - 1) \div 2

Greater(x, y) == ev_timeout[x] > ev_timeout[y]

\* min_heap_ctor, and min_heap_elem_init of every event.
Init ==
    /\ p = [i \in {} |-> Garbage] /\ n = 0 /\ a = 0
    /\ min_heap_idx = [e \in Event |-> NoIdx]
    /\ ev_timeout \in [Event -> Time]
    /\ pc = "idle" /\ hole = 0 /\ elem = Garbage /\ victim = Garbage /\ moves = 0

-----------------------------------------------------------------------------
\* min_heap_reserve(s, n + 1): the allocation doubles.  What realloc returns
\* beyond the old slots is garbage.
Doubled == IF a = 0 THEN FirstAlloc ELSE 2 * a

Reserved == IF a >= n + 1 THEN a ELSE IF Doubled < n + 1 THEN n + 1 ELSE Doubled

Grown(old) == [i \in 0..(Reserved - 1) |-> IF i < a THEN old[i] ELSE Garbage]

\* event_add sets the time of an event that is in no heap; min_heap_push puts
\* the hole at the end.
Push(e, t) ==
    /\ pc = "idle" /\ min_heap_idx[e] = NoIdx
    /\ ev_timeout' = [ev_timeout EXCEPT ![e] = t]
    /\ a' = Reserved
    /\ p' = Grown(p)
    /\ hole' = n /\ n' = n + 1 /\ elem' = e
    /\ pc' = "up"
    /\ UNCHANGED <<min_heap_idx, victim, moves>>

\* The last element goes into the hole that e leaves.  Its old slot is dead.
Erase(e) ==
    /\ pc = "idle" /\ min_heap_idx[e] # NoIdx
    /\ n' = n - 1
    /\ hole' = min_heap_idx[e] /\ elem' = p[n - 1] /\ victim' = e
    /\ p' = [p EXCEPT ![n - 1] = Garbage]
    /\ pc' = "down"
    /\ UNCHANGED <<a, min_heap_idx, ev_timeout, moves>>

\* timeout_correct: all elements move by the same amount, in place.
Correct ==
    /\ pc = "idle" /\ n > 0
    /\ \A i \in 0..(n - 1) : ev_timeout[p[i]] > -MaxShift
    /\ ev_timeout' = [e \in Event |-> IF \E i \in 0..(n - 1) : p[i] = e
                                      THEN ev_timeout[e] - 1 ELSE ev_timeout[e]]
    /\ UNCHANGED <<p, n, a, min_heap_idx, pc, hole, elem, victim, moves>>

-----------------------------------------------------------------------------
RightChild == 2 * (hole + 1)

\* The smaller child of the hole, when it has one.
MinChild ==
    IF RightChild = n \/ Greater(p[RightChild], p[RightChild - 1])
    THEN RightChild - 1 ELSE RightChild

SinksBelowChild == RightChild <= n /\ Greater(elem, p[MinChild])

\* Mutant of MoveHole: copied in the wrong direction.
MoveHoleSwapped(i) ==
    /\ p' = [p EXCEPT ![i] = p[hole]]
    /\ min_heap_idx' = [min_heap_idx EXCEPT ![p[i]] = hole]
    /\ hole' = i
    /\ moves' = moves + 1

\* The element at position i moves into the hole, and the hole to i.
MoveHole(i) ==
    /\ p' = [p EXCEPT ![hole] = p[i]]
    /\ min_heap_idx' = [min_heap_idx EXCEPT ![p[i]] = hole]
    /\ hole' = i
    /\ moves' = moves + 1

ShiftDown ==
    /\ pc = "down" /\ SinksBelowChild
    /\ MoveHole(MinChild)
    /\ UNCHANGED <<n, a, ev_timeout, pc, elem, victim>>

\* Mutant of ShiftDownEnd: the element is placed without shifting it up.
PlaceWithoutShiftUp ==
    /\ pc = "down" /\ ~SinksBelowChild
    /\ p' = [p EXCEPT ![hole] = IF elem = victim THEN Garbage ELSE elem]
    /\ min_heap_idx' = [e \in Event |-> IF e = victim THEN NoIdx
                                        ELSE IF e = elem THEN hole ELSE min_heap_idx[e]]
    /\ pc' = "idle" /\ hole' = 0 /\ elem' = Garbage /\ victim' = Garbage /\ moves' = 0
    /\ UNCHANGED <<n, a, ev_timeout>>

\* min_heap_shift_down_ ends in min_heap_shift_up_: an element from another
\* branch may have to rise instead.
ShiftDownEnd ==
    /\ pc = "down" /\ ~SinksBelowChild
    /\ pc' = "up"
    /\ UNCHANGED <<p, n, a, min_heap_idx, ev_timeout, hole, elem, victim, moves>>

RisesAboveParent == hole # 0 /\ Greater(p[Parent(hole)], elem)

ShiftUp ==
    /\ pc = "up" /\ RisesAboveParent
    /\ MoveHole(Parent(hole))
    /\ UNCHANGED <<n, a, ev_timeout, pc, elem, victim>>

\* The indexes after the element is placed; min_heap_erase then resets the
\* index of the event it removed, which is the one just placed if it was last.
PlacedIdx ==
    [e \in Event |-> IF e = victim THEN NoIdx
                     ELSE IF e = elem THEN hole ELSE min_heap_idx[e]]

\* The element drops into the hole and the call returns.  The last element,
\* when it is itself erased, drops into the slot it had, which is dead.
Place ==
    /\ pc = "up" /\ ~RisesAboveParent
    /\ p' = [p EXCEPT ![hole] = IF elem = victim THEN Garbage ELSE elem]
    /\ min_heap_idx' = PlacedIdx
    /\ pc' = "idle" /\ hole' = 0 /\ elem' = Garbage /\ victim' = Garbage /\ moves' = 0
    /\ UNCHANGED <<n, a, ev_timeout>>

Next ==
    \/ \E e \in Event, t \in Time : Push(e, t)
    \/ \E e \in Event : Erase(e)
    \/ Correct
    \/ ShiftDown \/ ShiftDownEnd \/ ShiftUp \/ Place

Spec == Init /\ [][Next]_vars

-----------------------------------------------------------------------------
(***************************************************************************)
(* Properties.                                                             *)
(***************************************************************************)
Positions == 0..(n - 1)

\* Every variable has its type.
TypeOK ==
    /\ n \in Nat /\ a \in Nat
    /\ p \in [0..(a - 1) -> Event \cup {Garbage}]
    /\ min_heap_idx \in [Event -> Nat \cup {NoIdx}]
    /\ ev_timeout \in [Event -> Int]
    /\ pc \in {"idle", "down", "up"}
    /\ hole \in Nat /\ moves \in Nat
    /\ {elem, victim} \subseteq Event \cup {Garbage}

\* Every parent is earlier than its descendants.
HeapOrdered ==
    pc = "idle" =>
        /\ \A i \in Positions \ {0} : ev_timeout[p[Parent(i)]] <= ev_timeout[p[i]]
        /\ \A i \in Positions : ev_timeout[p[0]] <= ev_timeout[p[i]]

\* Between calls min_heap_idx is exact: each event of the heap knows its
\* place, and all others know that they have none, so that min_heap_erase
\* never takes the wrong event out.
IdxExact ==
    pc = "idle" =>
        /\ \A i \in Positions : min_heap_idx[p[i]] = i
        /\ \A e \in Event : min_heap_idx[e] # NoIdx =>
              min_heap_idx[e] \in Positions /\ p[min_heap_idx[e]] = e

\* Every slot the loops touch is inside the allocation, and they read no slot
\* that is not in use.
StaysInside ==
    pc # "idle" =>
        /\ hole <= n /\ hole < a
        /\ pc = "down" /\ RightChild <= n => MinChild < n /\ p[MinChild] \in Event
        /\ pc = "up" /\ hole # 0 => p[Parent(hole)] \in Event

\* A call moves at most as many elements as the heap has levels below the
\* root: both loops end, and the one that ends a removal never undoes the other.
FewMoves == 2^moves <= n + 1

\* Whatever was pushed, erased and shifted, the element timeout_next and
\* timeout_process look at is the earliest of all, every event can be erased
\* by the index it carries, the loops stay inside the array, and a call costs
\* no more than the depth of the heap.
HeapSound == HeapOrdered /\ IdxExact /\ StaysInside /\ FewMoves

\* The events of the heap, also while an element is on its way to its place.
Contents ==
    IF pc = "idle" THEN {p[i] : i \in Positions}
    ELSE {p[i] : i \in Positions \ {hole}}
            \cup (IF elem = victim THEN {} ELSE {elem})

Set == INSTANCE TimerSet WITH members <- Contents

\* The heap implements the set of timers that event.c works with: no loop
\* iteration loses or duplicates an event, each call adds or removes exactly
\* the event it is given.
ImplementsTimerSet == Set!Spec
=============================================================================
