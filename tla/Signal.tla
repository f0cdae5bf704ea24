------------------------------- MODULE Signal -------------------------------
(***************************************************************************)
(* Signal events of libevent 1.4.3 (signal.c, and the calls of it in       *)
(* epoll_dispatch): the handler that counts a signal and writes to a       *)
(* socket pair, evsignal_process that turns the counts into active events, *)
(* evsignal_cb that empties the socket, and the saved signal dispositions. *)
(*                                                                         *)
(* The handler runs to its end before the interrupted code goes on (the    *)
(* process has one thread and sa_mask blocks every signal), but it may     *)
(* interrupt the loop between any two accesses of the shared counters:     *)
(* those accesses are the steps here.  event_add and event_del are one     *)
(* step each: a signal in the middle of one is ignored or counted as it    *)
(* would have been just before.  One event_base; memory does not run out.  *)
(***************************************************************************)
EXTENDS Integers, Sequences, FiniteSets

CONSTANTS
    Event,       \* the signal events of the application
    Sig,         \* the signals
    EVENT_SIGNAL,\* the signal of each event
    Persistent,  \* the events with EV_PERSIST
    ev_signal,   \* the internal event of the socket pair
    Timers,      \* TRUE: a timer or a busy descriptor ends every wait
    ShortBits,   \* width of the short that event_active takes (16)
    RecvMax,     \* bytes one recv takes (100)
    SocketCap,   \* bytes the socket holds; send fails beyond
    MaxCaught    \* bound: signals caught between two scans

ASSUME SignalModelAssumption ==
    /\ EVENT_SIGNAL \in [Event -> Sig]
    /\ Persistent \subseteq Event
    /\ ev_signal \notin Event
    /\ Timers \in BOOLEAN
    /\ {ShortBits, RecvMax, SocketCap, MaxCaught} \subseteq Nat \ {0}

VARIABLES
    disposition,      \* who handles each signal: "app" or "evsignal_handler"
    sh_old,           \* the saved disposition, "NULL" if there is none
    signalqueue,      \* the registered signal events
    evsigcaught,      \* count of each signal
    evsignal_caught,
    ev_signal_added,
    socket,           \* bytes in the socket pair
    active,           \* active events in the order of their callbacks
    ev_ncalls,
    pc,
    interrupted,      \* a signal came during the wait: it returns EINTR
    readable,         \* the wait reported the socket pair as readable
    todo,             \* events evsignal_process has still to look at
    ncalls,           \* its local variable
    pending           \* history: a signal came for this event, no callback yet

sigVars  == <<disposition, sh_old, signalqueue, ev_signal_added>>
sentVars == <<evsigcaught, evsignal_caught, socket>>
runVars  == <<active, ev_ncalls>>
scanVars == <<todo, ncalls>>
vars == <<sigVars, sentVars, runVars, pc, interrupted, readable, scanVars, pending>>

InQueue(q, e) == \E i \in 1..Len(q) : q[i] = e

Without(q, e) == SelectSeq(q, LAMBDA x : x # e)

\* The calls a short makes of a count.
Short(n) == n % 2^ShortBits

Init ==
    /\ disposition = [s \in Sig |-> "app"]
    /\ sh_old = [s \in Sig |-> "NULL"]
    /\ signalqueue = <<>> /\ ev_signal_added = FALSE
    /\ evsigcaught = [s \in Sig |-> 0] /\ evsignal_caught = FALSE /\ socket = 0
    /\ active = <<>> /\ ev_ncalls = [e \in Event |-> 0]
    /\ pc = "user" /\ interrupted = FALSE /\ readable = FALSE
    /\ todo = <<>> /\ ncalls = 0
    /\ pending = {}

-----------------------------------------------------------------------------
\* A signal whose handler is evsignal_handler.  It is counted for every event
\* that is registered for it.  Of two signals during a full socket one byte
\* is lost, which is as good as two.
Deliver(s) ==
    /\ disposition[s] = "evsignal_handler"
    /\ evsigcaught[s] < MaxCaught
    /\ evsigcaught' = [evsigcaught EXCEPT ![s] = @ + 1]
    /\ evsignal_caught' = TRUE
    /\ socket' = IF socket < SocketCap THEN socket + 1 ELSE socket
    /\ interrupted' = (interrupted \/ pc = "wait")
    /\ pending' = pending \cup {e \in Event : EVENT_SIGNAL[e] = s /\ InQueue(signalqueue, e)}
    /\ UNCHANGED <<sigVars, runVars, pc, readable, scanVars>>

-----------------------------------------------------------------------------
\* evsignal_del: the saved disposition is installed again; sigaction with a
\* NULL pointer changes nothing.
Restore(s) ==
    /\ disposition' = IF sh_old[s] = "NULL" THEN disposition
                      ELSE [disposition EXCEPT ![s] = sh_old[s]]
    /\ sh_old' = [sh_old EXCEPT ![s] = "NULL"]


\* The signal part of event_del.
Unregister(e) ==
    IF InQueue(signalqueue, e)
    THEN signalqueue' = Without(signalqueue, e) /\ Restore(EVENT_SIGNAL[e])
    ELSE UNCHANGED <<signalqueue, disposition, sh_old>>

\* The application calls event_add and event_del outside the loop or in one
\* of its callbacks.
InUserCode == pc \in {"user", "callback"}

\* event_add and evsignal_add; event_add leaves a registered event alone.
EventAdd(e) ==
    /\ InUserCode /\ ~InQueue(signalqueue, e)
    /\ sh_old' = [sh_old EXCEPT ![EVENT_SIGNAL[e]] = disposition[EVENT_SIGNAL[e]]]
    /\ disposition' = [disposition EXCEPT ![EVENT_SIGNAL[e]] = "evsignal_handler"]
    /\ signalqueue' = Append(signalqueue, e)
    /\ ev_signal_added' = TRUE
    /\ UNCHANGED <<sentVars, runVars, pc, interrupted, readable, scanVars, pending>>

EventDel(e) ==
    /\ InUserCode
    /\ Unregister(e)
    /\ active' = Without(active, e)
    /\ pending' = pending \ {e}
    /\ UNCHANGED <<ev_signal_added, sentVars, ev_ncalls, pc, interrupted, readable, scanVars>>

-----------------------------------------------------------------------------
\* The loop reaches the wait of the backend.
LoopEnter ==
    /\ pc = "user"
    /\ pc' = "wait"
    /\ UNCHANGED <<sigVars, sentVars, runVars, interrupted, readable, scanVars, pending>>

\* EINTR: evsignal_process runs, ready descriptors are left for later.
WaitInterrupted ==
    /\ pc = "wait" /\ interrupted
    /\ interrupted' = FALSE
    /\ pc' = "scan"
    /\ UNCHANGED <<sigVars, sentVars, runVars, readable, scanVars, pending>>

SocketReported == ev_signal_added /\ socket > 0

\* The wait ends with ready descriptors or by its timeout.
WaitReturns ==
    /\ pc = "wait"
    /\ SocketReported \/ Timers
    /\ readable' = SocketReported
    /\ interrupted' = FALSE
    /\ pc' = IF evsignal_caught THEN "scan" ELSE "report"
    /\ UNCHANGED <<sigVars, sentVars, runVars, scanVars, pending>>

ScanStart ==
    /\ pc = "scan"
    /\ evsignal_caught' = FALSE
    /\ todo' = signalqueue
    /\ pc' = "scanning"
    /\ UNCHANGED <<sigVars, evsigcaught, socket, runVars, interrupted, readable, ncalls, pending>>

\* One event of the queue: read its count.
ScanRead ==
    /\ pc = "scanning" /\ todo # <<>>
    /\ LET n == evsigcaught[EVENT_SIGNAL[Head(todo)]]
       IN  IF n = 0
           THEN todo' = Tail(todo) /\ UNCHANGED <<pc, ncalls>>
           ELSE pc' = "activate" /\ ncalls' = n /\ UNCHANGED todo
    /\ UNCHANGED <<sigVars, sentVars, runVars, interrupted, readable, pending>>

\* event_del unless persistent, then event_active.
ScanActivate ==
    /\ pc = "activate"
    /\ LET e == Head(todo)
           q == IF e \in Persistent THEN active ELSE Without(active, e)
       IN  /\ IF e \in Persistent THEN UNCHANGED <<signalqueue, disposition, sh_old>>
                                  ELSE Unregister(e)
           /\ IF InQueue(q, e)
              THEN active' = q /\ UNCHANGED ev_ncalls
              ELSE /\ active' = Append(q, e)
                   /\ ev_ncalls' = [ev_ncalls EXCEPT ![e] = Short(ncalls)]
    /\ pc' = "reset"
    /\ UNCHANGED <<ev_signal_added, sentVars, interrupted, readable, scanVars, pending>>

ScanReset ==
    /\ pc = "reset"
    /\ evsigcaught' = [evsigcaught EXCEPT ![EVENT_SIGNAL[Head(todo)]] = 0]
    /\ ncalls' = 0
    /\ todo' = Tail(todo)
    /\ pc' = "scanning"
    /\ UNCHANGED <<sigVars, evsignal_caught, socket, runVars, interrupted, readable, pending>>

\* Mutant of ScanDone: evsignal_caught is cleared after the scan.
ScanDoneClears ==
    /\ pc = "scanning" /\ todo = <<>>
    /\ evsignal_caught' = FALSE
    /\ pc' = "report"
    /\ UNCHANGED <<sigVars, evsigcaught, socket, runVars, interrupted, readable, scanVars, pending>>

ScanDone ==
    /\ pc = "scanning" /\ todo = <<>>
    /\ pc' = "report"
    /\ UNCHANGED <<sigVars, sentVars, runVars, interrupted, readable, scanVars, pending>>

\* Mutant of Report: ev_signal is made active after every wait.
ReportAlways ==
    /\ pc = "report"
    /\ active' = IF ~InQueue(active, ev_signal) THEN Append(active, ev_signal) ELSE active
    /\ readable' = FALSE
    /\ pc' = "process"
    /\ UNCHANGED <<sigVars, sentVars, ev_ncalls, interrupted, scanVars, pending>>

\* The rest of epoll_dispatch makes ev_signal active if it was reported.
Report ==
    /\ pc = "report"
    /\ active' = IF readable /\ ~InQueue(active, ev_signal)
                 THEN Append(active, ev_signal) ELSE active
    /\ readable' = FALSE
    /\ pc' = "process"
    /\ UNCHANGED <<sigVars, sentVars, ev_ncalls, interrupted, scanVars, pending>>

-----------------------------------------------------------------------------
\* evsignal_cb: recv on a blocking socket.
EvsignalCb ==
    /\ pc = "process" /\ active # <<>> /\ Head(active) = ev_signal
    /\ socket > 0
    /\ socket' = IF socket > RecvMax THEN socket - RecvMax ELSE 0
    /\ active' = Tail(active)
    /\ UNCHANGED <<sigVars, evsigcaught, evsignal_caught, ev_ncalls, pc, interrupted,
                   readable, scanVars, pending>>

\* event_process_active: event_del unless persistent, then the calls, if any.
Callback ==
    /\ pc = "process" /\ active # <<>> /\ Head(active) # ev_signal
    /\ LET e == Head(active)
       IN  /\ active' = Tail(active)
           /\ IF e \in Persistent THEN UNCHANGED <<signalqueue, disposition, sh_old>>
                                  ELSE Unregister(e)
           /\ IF ev_ncalls[e] = 0
              THEN UNCHANGED <<pc, ev_ncalls, pending>>
              ELSE /\ pc' = "callback"
                   /\ ev_ncalls' = [ev_ncalls EXCEPT ![e] = 0]
                   /\ pending' = pending \ {e}
    /\ UNCHANGED <<ev_signal_added, sentVars, interrupted, readable, scanVars>>

CallbackReturn ==
    /\ pc = "callback"
    /\ pc' = "process"
    /\ UNCHANGED <<sigVars, sentVars, runVars, interrupted, readable, scanVars, pending>>

\* The loop goes round, or returns to the application.
LoopAgain ==
    /\ pc = "process" /\ active = <<>>
    /\ pc' = "wait"
    /\ UNCHANGED <<sigVars, sentVars, runVars, interrupted, readable, scanVars, pending>>

LoopReturn ==
    /\ pc = "process" /\ active = <<>>
    /\ pc' = "user"
    /\ UNCHANGED <<sigVars, sentVars, runVars, interrupted, readable, scanVars, pending>>

Loop ==
    \/ WaitInterrupted \/ WaitReturns
    \/ ScanStart \/ ScanRead \/ ScanActivate \/ ScanReset \/ ScanDone \/ Report
    \/ EvsignalCb \/ Callback \/ CallbackReturn \/ LoopAgain

Next ==
    \/ \E s \in Sig : Deliver(s)
    \/ \E e \in Event : EventAdd(e) \/ EventDel(e)
    \/ LoopEnter \/ Loop \/ LoopReturn

Spec == Init /\ [][Next]_vars

\* The thread runs, callbacks return, and the kernel ends a wait it must end.
FairSpec == Spec /\ WF_vars(Loop)

-----------------------------------------------------------------------------
(***************************************************************************)
(* Properties.                                                             *)
(***************************************************************************)


\* A signal is never forgotten, wherever it interrupts the scan: until the
\* callback runs, the event is active, or its count is set and the scan under
\* way, or the flag that asks for another, will find it.
SignalNotForgotten ==
    \A e \in pending :
        \/ InQueue(active, e) /\ ev_ncalls[e] # 0
        \/ pc = "activate" /\ Head(todo) = e
        \/ /\ evsigcaught[EVENT_SIGNAL[e]] > 0 /\ InQueue(signalqueue, e)
           /\ \/ evsignal_caught
              \/ pc \in {"scanning", "activate"} /\ InQueue(todo, e)
              \/ pc = "reset" /\ InQueue(Tail(todo), e)

\* evsignal_cb reads a blocking socket: it is only called when there is
\* something to read, so that it never stops the loop.
RecvNeverBlocks ==
    pc = "process" /\ InQueue(active, ev_signal) => socket > 0

=============================================================================
