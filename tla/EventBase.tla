------------------------------ MODULE EventBase ------------------------------
(***************************************************************************)
(* The bookkeeping of one event_base of libevent 1.4.3 (event.c): the      *)
(* lists an event can be on, the counters kept beside them, and the        *)
(* operations event_add, event_del, event_active and their helpers.        *)
(*                                                                         *)
(* Everything here is a function on the record that holds the base and the *)
(* fields of its events; EventLoop turns these functions into actions.     *)
(* No locking exists in this code: a call runs to its end before another   *)
(* one starts, so one call is one function application.                    *)
(*                                                                         *)
(* Abstractions.  The registered-event queue, the signal queue and the     *)
(* timer heap are the sets of events carrying the flag of that list (their *)
(* order matters to no property here; the heap is refined in MinHeap).     *)
(* The active queues are sequences: their order is the order of callbacks. *)
(* A time is an integer number of ticks.                                   *)
(***************************************************************************)
EXTENDS Integers, Sequences, FiniteSets

CONSTANTS
    Event,          \* the event structures, ev_signal among them
    ev_signal,      \* the internal read event of the signal socket pair
    ev_events,      \* what each event waits for: [Event -> SUBSET Interest]
    use_monotonic   \* TRUE: gettime() reads a clock that never runs backwards

Io       == {"READ", "WRITE"}
Interest == Io \cup {"SIGNAL", "PERSIST"}
Result   == Io \cup {"SIGNAL", "TIMEOUT"}
Lists    == {"TIMEOUT", "INSERTED", "SIGNAL", "ACTIVE"}

\* A NULL timeval pointer.
NoTimeout == -1

\* event_process_active is not on the stack, so its variable ncalls is dead.
NoFrame == -1

ASSUME EventAssumption ==
    /\ IsFiniteSet(Event)
    /\ ev_signal \in Event
    /\ ev_events \in [Event -> SUBSET Interest]
    /\ ev_events[ev_signal] = {"READ", "PERSIST"}

ASSUME MonotonicAssumption == use_monotonic \in BOOLEAN

\* An event for a signal carries no I/O interest (evsignal_add exits if so).
ASSUME SignalAssumption ==
    \A e \in Event : "SIGNAL" \in ev_events[e] => ev_events[e] \cap Io = {}

-----------------------------------------------------------------------------
(***************************************************************************)
(* The record.  ev_pncalls[e] is TRUE when the pointer is not NULL: the    *)
(* only value ever stored is the address of the variable ncalls of         *)
(* event_process_active, which is the field ncalls here.  errx: the code   *)
(* called event_errx (it exits).  wild: it stored through ev_pncalls while *)
(* no event_process_active was on the stack.                               *)
(***************************************************************************)
BaseType ==
    [flags              : [Event -> SUBSET Lists],
     ev_timeout         : [Event -> Int],
     ev_res             : [Event -> SUBSET Result],
     ev_ncalls          : [Event -> Nat],
     ev_pncalls         : [Event -> BOOLEAN],
     ev_pri             : [Event -> Nat],
     activequeues       : Seq(Seq(Event)),
     event_count        : Int,
     event_count_active : Int,
     ev_signal_added    : BOOLEAN,
     ncalls             : Nat \cup {NoFrame},
     errx               : BOOLEAN,
     wild               : BOOLEAN]

nactivequeues(b) == Len(b.activequeues)

\* Priorities count from 0, TLA+ sequences from 1.
QueueOf(b, e) == b.ev_pri[e] + 1

\* event_base_new, event_base_priority_init and event_set of every event: npri
\* queues and every event in the middle one, except ev_signal, which
\* evsignal_init set up before there was any queue.
NewBase(npri) ==
    [flags              |-> [e \in Event |-> {}],
     ev_timeout         |-> [e \in Event |-> 0],
     ev_res             |-> [e \in Event |-> {}],
     ev_ncalls          |-> [e \in Event |-> 0],
     ev_pncalls         |-> [e \in Event |-> FALSE],
     ev_pri             |-> [e \in Event |-> IF e = ev_signal THEN 0 ELSE npri \div 2],
     activequeues       |-> [i \in 1..npri |-> <<>>],
     event_count        |-> 0,
     event_count_active |-> 0,
     ev_signal_added    |-> FALSE,
     ncalls             |-> NoFrame,
     errx               |-> FALSE,
     wild               |-> FALSE]

On(b, q) == {e \in Event : q \in b.flags[e]}

-----------------------------------------------------------------------------
(***************************************************************************)
(* event_queue_remove and event_queue_insert: the only writers of ev_flags *)
(* and of the two counters.  Being on no such list, or twice on one, is a  *)
(* fatal error, except that inserting an active event again does nothing.  *)
(***************************************************************************)
TailqRemove(q, e) ==
    LET i == CHOOSE j \in 1..Len(q) : q[j] = e
    IN  [j \in 1..(Len(q) - 1) |-> IF j < i THEN q[j] ELSE q[j + 1]]

\* The active queues without e, and with e at the end of its queue.
Unlinked(b, e) ==
    [b.activequeues EXCEPT ![QueueOf(b, e)] = TailqRemove(@, e)]

Linked(b, e) ==
    [b.activequeues EXCEPT ![QueueOf(b, e)] = Append(@, e)]

\* Mutant of event_queue_remove: event_count_active is not decremented.
remove_keeps_active_count(b, e, q) ==
    IF q \notin b.flags[e]
    THEN [b EXCEPT !.errx = TRUE]
    ELSE [b EXCEPT
            !.flags[e] = @ \ {q},
            !.event_count = IF e = ev_signal THEN @ ELSE @ - 1,
            !.activequeues = IF q = "ACTIVE" THEN Unlinked(b, e) ELSE @]

event_queue_remove(b, e, q) ==
    IF q \notin b.flags[e]
    THEN [b EXCEPT !.errx = TRUE]
    ELSE [b EXCEPT
            !.flags[e] = @ \ {q},
            !.event_count = IF e = ev_signal THEN @ ELSE @ - 1,
            !.event_count_active = IF q = "ACTIVE" THEN @ - 1 ELSE @,
            !.activequeues = IF q = "ACTIVE" THEN Unlinked(b, e) ELSE @]

event_queue_insert(b, e, q) ==
    IF q \in b.flags[e]
    THEN IF q = "ACTIVE" THEN b ELSE [b EXCEPT !.errx = TRUE]
    ELSE [b EXCEPT
            !.flags[e] = @ \cup {q},
            !.event_count = IF e = ev_signal THEN @ ELSE @ + 1,
            !.event_count_active = IF q = "ACTIVE" THEN @ + 1 ELSE @,
            !.activequeues = IF q = "ACTIVE" THEN Linked(b, e) ELSE @]

RemoveIfOn(b, e, q) ==
    IF q \in b.flags[e] THEN event_queue_remove(b, e, q) ELSE b

\* "See if we are just active executing this event in a loop": stop the loop
\* of event_process_active by a store through ev_pncalls.
AbortLoop(b, e) ==
    IF b.ev_ncalls[e] # 0 /\ b.ev_pncalls[e]
    THEN IF b.ncalls = NoFrame THEN [b EXCEPT !.wild = TRUE]
                               ELSE [b EXCEPT !.ncalls = 0]
    ELSE b

-----------------------------------------------------------------------------

event_del(b, e) ==
    LET b1 == RemoveIfOn(AbortLoop(b, e), e, "TIMEOUT")
        b2 == RemoveIfOn(b1, e, "ACTIVE")
    IN  IF "INSERTED" \in b2.flags[e]
        THEN event_queue_remove(b2, e, "INSERTED")
        ELSE RemoveIfOn(b2, e, "SIGNAL")

event_active(b, e, res, ncalls) ==
    IF "ACTIVE" \in b.flags[e]
    THEN [b EXCEPT !.ev_res[e] = @ \cup res]
    ELSE event_queue_insert([b EXCEPT !.ev_res[e] = res,
                                      !.ev_ncalls[e] = ncalls,
                                      !.ev_pncalls[e] = FALSE],
                            e, "ACTIVE")

\* Mutant of AddTimeout: the old timeout is still in the heap.
add_keeps_old_timeout(b, e, tv, now) ==
    event_queue_insert([b EXCEPT !.ev_timeout[e] = now + tv], e, "TIMEOUT")

\* Mutant of AddTimeout: the activation by an expired timeout is kept.
add_keeps_expired(b, e, tv, now) ==
    event_queue_insert([RemoveIfOn(b, e, "TIMEOUT") EXCEPT !.ev_timeout[e] = now + tv],
                       e, "TIMEOUT")

\* The timer part of event_add: drop the old timeout, and the activation an
\* expired one caused whose callback has not run yet; then arm the new one.
AddTimeout(b, e, tv, now) ==
    LET b1 == RemoveIfOn(b, e, "TIMEOUT")
        b2 == IF "ACTIVE" \in b1.flags[e] /\ "TIMEOUT" \in b1.ev_res[e]
              THEN event_queue_remove(AbortLoop(b1, e), e, "ACTIVE")
              ELSE b1
    IN  event_queue_insert([b2 EXCEPT !.ev_timeout[e] = now + tv], e, "TIMEOUT")

WantsIo(b, e) ==
    /\ ev_events[e] \cap Io # {}
    /\ b.flags[e] \cap {"INSERTED", "ACTIVE"} = {}

WantsSignal(b, e) ==
    /\ "SIGNAL" \in ev_events[e]
    /\ "SIGNAL" \notin b.flags[e]

\* ok: the events the backend accepts.  A signal event makes evsignal_add
\* register ev_signal the first time, and ignore whether that worked.
evsignal_add(b, ok) ==
    IF b.ev_signal_added
    THEN b
    ELSE LET b1 == [b EXCEPT !.ev_signal_added = TRUE]
         IN  IF WantsIo(b1, ev_signal) /\ ev_signal \in ok
             THEN event_queue_insert(b1, ev_signal, "INSERTED")
             ELSE b1

event_add(b, e, tv, now, ok) ==
    LET b1 == IF tv = NoTimeout THEN b ELSE AddTimeout(b, e, tv, now)
    IN  IF WantsIo(b1, e)
        THEN IF e \in ok THEN event_queue_insert(b1, e, "INSERTED") ELSE b1
        ELSE IF WantsSignal(b1, e) /\ e \in ok
             THEN event_queue_insert(evsignal_add(b1, ok), e, "SIGNAL")
             ELSE b1

\* event_add returns -1 exactly when the backend refuses the event.
AddFails(b, e, tv, now, ok) ==
    LET b1 == IF tv = NoTimeout THEN b ELSE AddTimeout(b, e, tv, now)
    IN  (WantsIo(b1, e) \/ WantsSignal(b1, e)) /\ e \notin ok

-----------------------------------------------------------------------------
(***************************************************************************)
(* What the operations above keep true of the record.                      *)
(***************************************************************************)

\* Every list an event is on, the internal event apart.
Memberships(b) ==
    {m \in (Event \ {ev_signal}) \X Lists : m[2] \in b.flags[m[1]]}

CountersAgree(b) ==
    /\ b.event_count = Cardinality(Memberships(b))
    /\ b.event_count_active = Cardinality(On(b, "ACTIVE"))

NoDuplicates(q) == \A j, k \in 1..Len(q) : q[j] = q[k] => j = k

Holds(q, e) == \E j \in 1..Len(q) : q[j] = e

QueuesAgree(b) ==
    /\ \A e \in Event : b.ev_pri[e] < nactivequeues(b)
    /\ \A i \in 1..nactivequeues(b) : NoDuplicates(b.activequeues[i])
    /\ \A i \in 1..nactivequeues(b), e \in Event :
          Holds(b.activequeues[i], e) <=>
              ("ACTIVE" \in b.flags[e] /\ QueueOf(b, e) = i)

-----------------------------------------------------------------------------
\* An event at the top of the timer heap.
IsTop(b, e) ==
    /\ e \in On(b, "TIMEOUT")
    /\ \A f \in On(b, "TIMEOUT") : b.ev_timeout[e] <= b.ev_timeout[f]

\* timeout_next: how long the backend may wait, NoTimeout for ever; a set with
\* one value, the same for every event that could be at the top.
timeout_next(b, now) ==
    IF On(b, "TIMEOUT") = {}
    THEN {NoTimeout}
    ELSE {IF b.ev_timeout[e] <= now THEN 0 ELSE b.ev_timeout[e] - now :
             e \in {t \in Event : IsTop(b, t)}}

\* timeout_correct, when the clock shows an earlier time than the last check:
\* every timer in the heap moves by the difference.
ShiftTimeouts(b, off) ==
    [b EXCEPT !.ev_timeout =
        [e \in Event |-> IF e \in On(b, "TIMEOUT") THEN @[e] - off ELSE @[e]]]
=============================================================================
