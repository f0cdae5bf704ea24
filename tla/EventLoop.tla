------------------------------ MODULE EventLoop ------------------------------
(***************************************************************************)
(* event_base_loop of libevent 1.4.3 and everything that runs inside it:   *)
(* the wait in the backend, timeout_process, event_process_active and the  *)
(* callbacks, with the application calling the API from a callback or      *)
(* between two loops.  The application is unconstrained: any call of the   *)
(* API, on any of its events, in any order.                                *)
(*                                                                         *)
(* The backend is its contract: it reports events that are registered, in  *)
(* any order, after any wait.  One event_base, no loop started from inside *)
(* a callback.                                                             *)
(***************************************************************************)
EXTENDS EventBase

CONSTANTS
    Once,        \* the structures event_base_once may allocate
    NPri,        \* the argument of event_base_priority_init
    Timeouts,    \* intervals given to event_add
    Ncalls,      \* call counts given to event_active, or of a caught signal
    LoopFlags,   \* flag sets given to event_base_loop
    Refusable,   \* events whose registration the backend may refuse
    UseSigcb,    \* TRUE: the application sets event_gotsig from a handler
    MaxClock,    \* bound: the run ends at this time
    MaxSkew      \* bound: how far the clock is set back in total

ASSUME LoopAssumption ==
    /\ Once \subseteq Event \ {ev_signal}
    /\ \A o \in Once : ev_events[o] \subseteq Io
    /\ NPri \in Nat \ {0}
    /\ Timeouts \subseteq Nat
    /\ Ncalls \subseteq Nat \ {0}
    /\ LoopFlags \subseteq SUBSET {"ONCE", "NONBLOCK"}
    /\ Refusable \subseteq Event
    /\ UseSigcb \in BOOLEAN
    /\ MaxClock \in Nat
    /\ MaxSkew \in Nat

VARIABLES
    base,           \* the record of EventBase
    event_tv,       \* time of the last check of timeout_correct
    event_gotterm,  \* set by event_loopexit_cb
    event_break,    \* set by event_base_loopbreak
    event_gotsig,   \* set by a signal handler of the application
    eonce,          \* each once event: "free", or whose callback it carries
    pc,             \* where the thread is
    lflags,         \* flags of the running event_base_loop
    until,          \* real time at which the backend's wait ends
    tnow,           \* the variable now of timeout_process
    activeq,        \* index of the queue event_process_active works on
    cur,            \* the event whose callback runs
    clock,          \* real time
    skew,           \* what gettime() shows is clock + skew
    due,            \* history: real time at which an event's timer is due
    cancelled,      \* history: deleted by the application, not armed since
    owed            \* history: armed by the application, not called since

flagVars == <<event_gotterm, event_break, event_gotsig>>
loopVars == <<lflags, until, tnow, activeq, cur>>
histVars == <<due, cancelled, owed>>
timeVars == <<clock, skew>>
vars == <<base, event_tv, flagVars, eonce, pc, loopVars, timeVars, histVars>>

UserEvent == Event \ ({ev_signal} \cup Once)

PcValues == {"idle", "top", "dispatch", "activate", "timeouts", "process",
             "callback", "free", "freed"}

gettime == clock + skew

Init ==
    /\ base = NewBase(NPri)
    /\ event_tv = 0
    /\ event_gotterm = FALSE /\ event_break = FALSE /\ event_gotsig = FALSE
    /\ eonce = [o \in Once |-> "free"]
    /\ pc = "idle"
    /\ lflags = {} /\ until = 0 /\ tnow = 0 /\ activeq = 1 /\ cur = ev_signal
    /\ clock = 0 /\ skew = 0
    /\ due = [e \in Event |-> 0]
    /\ cancelled = {} /\ owed = {}

-----------------------------------------------------------------------------
(***************************************************************************)
(* Calls of the application.                                               *)
(***************************************************************************)

\* User code runs outside the loop, and in every callback that is not one
\* of the library's own (evsignal_cb, event_loopexit_cb).
InUserCode ==
    \/ pc = "idle"
    \/ pc = "callback" /\ cur \in UserEvent
    \/ pc = "callback" /\ cur \in Once /\ eonce[cur] = "user"

EventAdd(e, tv, ok) ==
    /\ InUserCode
    /\ clock + tv <= MaxClock
    /\ base' = event_add(base, e, tv, gettime, ok)
    /\ due' = IF tv = NoTimeout THEN due ELSE [due EXCEPT ![e] = clock + tv]
    /\ IF AddFails(base, e, tv, gettime, ok)
       THEN UNCHANGED <<cancelled, owed>>
       ELSE /\ cancelled' = cancelled \ {e}
            /\ owed' = IF tv = NoTimeout /\ ev_events[e] \subseteq {"PERSIST"}
                       THEN owed ELSE owed \cup {e}
    /\ UNCHANGED <<event_tv, flagVars, eonce, pc, loopVars, timeVars>>

EventDel(e) ==
    /\ InUserCode
    /\ base' = event_del(base, e)
    /\ cancelled' = cancelled \cup {e}
    /\ owed' = owed \ {e}
    /\ UNCHANGED <<event_tv, flagVars, eonce, pc, loopVars, timeVars, due>>

EventActive(e, n) ==
    /\ InUserCode
    /\ base' = event_active(base, e, {"READ"}, n)
    /\ cancelled' = cancelled \ {e}
    /\ owed' = owed \cup {e}
    /\ UNCHANGED <<event_tv, flagVars, eonce, pc, loopVars, timeVars, due>>

\* Mutant of EventPrioritySet: an active event is not refused.
PrioritySetOfActive(e, pri) ==
    /\ InUserCode
    /\ pri < nactivequeues(base)
    /\ base' = [base EXCEPT !.ev_pri[e] = pri]
    /\ UNCHANGED <<event_tv, flagVars, eonce, pc, loopVars, timeVars, histVars>>

\* event_priority_set refuses an active event.
EventPrioritySet(e, pri) ==
    /\ InUserCode
    /\ "ACTIVE" \notin base.flags[e]
    /\ pri < nactivequeues(base)
    /\ base' = [base EXCEPT !.ev_pri[e] = pri]
    /\ UNCHANGED <<event_tv, flagVars, eonce, pc, loopVars, timeVars, histVars>>

\* event_base_priority_init refuses while an event is active.  The caller is
\* outside the loop (in a callback the call would free the queue that
\* event_process_active works on) and leaves no event in a queue that goes away.
EventBasePriorityInit(npri) ==
    /\ pc = "idle"
    /\ base.event_count_active = 0
    /\ \A e \in Event : base.ev_pri[e] < npri
    /\ base' = [base EXCEPT !.activequeues = [i \in 1..npri |-> <<>>]]
    /\ UNCHANGED <<event_tv, flagVars, eonce, pc, loopVars, timeVars, histVars>>

\* event_base_once: allocate, event_set, event_base_set, event_add; the
\* structure is freed when event_add fails, whatever event_add left behind.
\* event_base_loopexit is the case what = "exit".
EventBaseOnce(o, tv, what, ok) ==
    LET b == [base EXCEPT !.ev_pri[o] = nactivequeues(base) \div 2,
                          !.ev_res[o] = {},
                          !.ev_ncalls[o] = 0,
                          !.ev_pncalls[o] = FALSE]
        t == IF ev_events[o] = {} /\ tv = NoTimeout THEN 0 ELSE tv
    IN  /\ InUserCode
        /\ clock + t <= MaxClock
        /\ eonce[o] = "free" /\ base.flags[o] = {}
        /\ what = "exit" => ev_events[o] = {}
        /\ base' = event_add(b, o, t, gettime, ok)
        /\ due' = IF t = NoTimeout THEN due ELSE [due EXCEPT ![o] = clock + t]
        /\ IF AddFails(b, o, t, gettime, ok)
           THEN UNCHANGED <<eonce, owed>>
           ELSE /\ eonce' = [eonce EXCEPT ![o] = what]
                /\ owed' = owed \cup {o}
        /\ UNCHANGED <<event_tv, flagVars, pc, loopVars, timeVars, cancelled>>

EventBaseLoopbreak ==
    /\ InUserCode
    /\ event_break' = TRUE
    /\ UNCHANGED <<base, event_tv, event_gotterm, event_gotsig, eonce, pc,
                   loopVars, timeVars, histVars>>

\* A signal handler of the application sets the global event_gotsig.
GotSig ==
    /\ UseSigcb
    /\ event_gotsig' = TRUE
    /\ UNCHANGED <<base, event_tv, event_gotterm, event_break, eonce, pc,
                   loopVars, timeVars, histVars>>

-----------------------------------------------------------------------------
(***************************************************************************)
(* event_base_loop.  A local variable that is dead is set back to its      *)
(* initial value, which no step can observe.                               *)
(***************************************************************************)
LoopEnter(f) ==
    /\ pc = "idle"
    /\ lflags' = f
    /\ pc' = "top"
    /\ UNCHANGED <<base, event_tv, flagVars, eonce, until, tnow, activeq, cur,
                   timeVars, histVars>>

LoopTerminated ==
    /\ pc = "top" /\ event_gotterm
    /\ event_gotterm' = FALSE
    /\ pc' = "idle"
    /\ UNCHANGED <<base, event_tv, event_break, event_gotsig, eonce, loopVars,
                   timeVars, histVars>>

LoopBroken ==
    /\ pc = "top" /\ ~event_gotterm /\ event_break
    /\ event_break' = FALSE
    /\ pc' = "idle"
    /\ UNCHANGED <<base, event_tv, event_gotterm, event_gotsig, eonce, loopVars,
                   timeVars, histVars>>

\* The application's event_sigcb runs; the loop returns -1 if it does.
LoopSigcb ==
    /\ pc = "top" /\ ~event_gotterm /\ ~event_break /\ event_gotsig
    /\ event_gotsig' = FALSE
    /\ pc' \in {"top", "idle"}
    /\ UNCHANGED <<base, event_tv, event_gotterm, event_break, eonce, loopVars,
                   timeVars, histVars>>

\* timeout_correct.  Nothing to do on a monotonic clock; otherwise remember
\* the time, or move all timers when it runs backwards.
timeout_correct ==
    IF use_monotonic
    THEN UNCHANGED <<base, event_tv>>
    ELSE IF gettime >= event_tv
         THEN event_tv' = gettime /\ UNCHANGED base
         ELSE base' = ShiftTimeouts(base, event_tv - gettime) /\ UNCHANGED event_tv

\* Bound: timeout_correct never updates event_tv when it moves the timers, so
\* it moves them in every iteration, without end; a run stops at this point.
ShiftsBounded == \A e \in Event : base.ev_timeout[e] >= -MaxSkew

\* Mutant of Waits: active events do not keep the backend from sleeping.
WaitsDespiteActive(b) ==
    IF "NONBLOCK" \notin lflags THEN timeout_next(b, gettime) ELSE {0}

\* Mutant of Waits: the timers are not looked at.
WaitsWithoutTimers(b) ==
    IF b.event_count_active = 0 /\ "NONBLOCK" \notin lflags THEN {NoTimeout} ELSE {0}

\* How long the backend may wait.  With an active event, or not allowed to
\* block, it only polls.
Waits(b) ==
    IF b.event_count_active = 0 /\ "NONBLOCK" \notin lflags
    THEN timeout_next(b, gettime)
    ELSE {0}

\* The rest of one iteration up to the backend's wait.
LoopWait ==
    /\ pc = "top" /\ ~event_gotterm /\ ~event_break /\ ~event_gotsig
    /\ ShiftsBounded
    /\ timeout_correct
    /\ IF base.event_count > 0
       THEN /\ \E wait \in Waits(base') :
                  until' = IF wait = NoTimeout THEN NoTimeout ELSE clock + wait
            /\ pc' = "dispatch"
       ELSE pc' = "idle" /\ UNCHANGED until
    /\ UNCHANGED <<flagVars, eonce, lflags, tnow, activeq, cur, timeVars, histVars>>

\* The wait ends: something is ready, the time is up, or a signal came.
DispatchWake ==
    /\ pc = "dispatch"
    /\ pc' = "activate"
    /\ until' = 0
    /\ UNCHANGED <<base, event_tv, flagVars, eonce, lflags, tnow, activeq, cur,
                   timeVars, histVars>>

\* The backend's wait fails with an error that is not EINTR.
DispatchError ==
    /\ pc = "dispatch"
    /\ pc' = "idle"
    /\ until' = 0
    /\ UNCHANGED <<base, event_tv, flagVars, eonce, lflags, tnow, activeq, cur,
                   timeVars, histVars>>

\* The backend reports a registered event as ready.
ActivateIo(e, res) ==
    /\ pc = "activate"
    /\ e \in On(base, "INSERTED")
    /\ res \subseteq ev_events[e] \cap Io /\ res # {}
    /\ base' = event_active(base, e, res, 1)
    /\ UNCHANGED <<event_tv, flagVars, eonce, pc, loopVars, timeVars, histVars>>

\* evsignal_process for one event of the signal queue.
ActivateSignal(e, n) ==
    /\ pc = "activate"
    /\ e \in On(base, "SIGNAL")
    /\ LET b == IF "PERSIST" \in ev_events[e] THEN base ELSE event_del(base, e)
       IN  base' = event_active(b, e, {"SIGNAL"}, n)
    /\ UNCHANGED <<event_tv, flagVars, eonce, pc, loopVars, timeVars, histVars>>

\* The backend returns and timeout_process reads the time.
DispatchDone ==
    /\ pc = "activate"
    /\ pc' = "timeouts"
    /\ tnow' = gettime
    /\ UNCHANGED <<base, event_tv, flagVars, eonce, lflags, until, activeq, cur,
                   timeVars, histVars>>

\* Mutant of TimeoutExpire: activated first, deleted afterwards.
ExpireThenDelete(e) ==
    /\ pc = "timeouts"
    /\ IsTop(base, e)
    /\ base.ev_timeout[e] <= tnow
    /\ base' = event_del(event_active(base, e, {"TIMEOUT"}, 1), e)
    /\ UNCHANGED <<event_tv, flagVars, eonce, pc, loopVars, timeVars, histVars>>

\* One iteration of timeout_process: the top of the heap has expired.
TimeoutExpire(e) ==
    /\ pc = "timeouts"
    /\ IsTop(base, e)
    /\ base.ev_timeout[e] <= tnow
    /\ base' = event_active(event_del(base, e), e, {"TIMEOUT"}, 1)
    /\ UNCHANGED <<event_tv, flagVars, eonce, pc, loopVars, timeVars, histVars>>

NoneExpired == \A e \in On(base, "TIMEOUT") : base.ev_timeout[e] > tnow

\* Mutant of FirstQueue: the queues are searched from the other end.
LastQueue(i) ==
    /\ base.activequeues[i] # <<>>
    /\ \A j \in (i + 1)..nactivequeues(base) : base.activequeues[j] = <<>>

\* The queue event_process_active chooses.
FirstQueue(i) ==
    /\ base.activequeues[i] # <<>>
    /\ \A j \in 1..(i - 1) : base.activequeues[j] = <<>>

\* Enter event_process_active on the first queue that is not empty.
ProcessActive ==
    /\ pc = "timeouts" /\ NoneExpired
    /\ base.event_count_active # 0
    /\ \E i \in 1..nactivequeues(base) : FirstQueue(i) /\ activeq' = i
    /\ base' = [base EXCEPT !.ncalls = 0]
    /\ pc' = "process"
    /\ tnow' = 0
    /\ UNCHANGED <<event_tv, flagVars, eonce, lflags, until, cur, timeVars, histVars>>

NothingActive ==
    /\ pc = "timeouts" /\ NoneExpired
    /\ base.event_count_active = 0
    /\ pc' = IF "NONBLOCK" \in lflags THEN "idle" ELSE "top"
    /\ tnow' = 0
    /\ UNCHANGED <<base, event_tv, flagVars, eonce, lflags, until, activeq, cur,
                   timeVars, histVars>>

-----------------------------------------------------------------------------
(***************************************************************************)
(* event_process_active: take the head of the queue off its lists and call *)
(* it ncalls times.                                                        *)
(***************************************************************************)

\* The callback of e is invoked once more, n calls being left.
Invoke(b, e, n) ==
    /\ base' = [b EXCEPT !.ncalls = n - 1, !.ev_ncalls[e] = n - 1]
    /\ cur' = e
    /\ pc' = "callback"
    /\ owed' = owed \ {e}

\* Mutant of Taken: a persistent event is deleted like any other.
TakenDeleted(e) ==
    LET b == event_del(base, e)
    IN  [b EXCEPT !.ncalls = b.ev_ncalls[e], !.ev_pncalls[e] = TRUE]

\* The head of the queue, off the active list, with ev_pncalls set.
Taken(e) ==
    LET b == IF "PERSIST" \in ev_events[e]
             THEN event_queue_remove(base, e, "ACTIVE")
             ELSE event_del(base, e)
    IN  [b EXCEPT !.ncalls = b.ev_ncalls[e], !.ev_pncalls[e] = TRUE]

TakeEvent ==
    /\ pc = "process"
    /\ base.activequeues[activeq] # <<>>
    /\ LET e == Head(base.activequeues[activeq])
       IN  IF Taken(e).ncalls = 0
           THEN base' = Taken(e) /\ UNCHANGED <<cur, pc, owed>>
           ELSE Invoke(Taken(e), e, Taken(e).ncalls)
    /\ UNCHANGED <<event_tv, flagVars, eonce, lflags, until, tnow, activeq,
                   timeVars, due, cancelled>>

\* event_process_active returns; event_base_loop goes on or is done.
ProcessReturn(b) ==
    /\ base' = [b EXCEPT !.ncalls = NoFrame]
    /\ activeq' = 1 /\ cur' = ev_signal
    /\ pc' = IF b.event_count_active = 0 /\ "ONCE" \in lflags THEN "idle" ELSE "top"

QueueDone ==
    /\ pc = "process"
    /\ base.activequeues[activeq] = <<>>
    /\ ProcessReturn(base)
    /\ UNCHANGED <<event_tv, flagVars, eonce, lflags, until, tnow, timeVars, histVars>>


\* A callback returns.  event_loopexit_cb has set event_gotterm, and
\* event_once_cb has freed its structure.
CallbackReturn ==
    /\ pc = "callback"
    /\ event_gotterm' = (event_gotterm \/ (cur \in Once /\ eonce[cur] = "exit"))
    /\ eonce' = IF cur \in Once THEN [eonce EXCEPT ![cur] = "free"] ELSE eonce
    /\ IF event_gotsig \/ event_break
       THEN ProcessReturn(base) /\ UNCHANGED owed
       ELSE /\ IF base.ncalls > 0
               THEN Invoke(base, cur, base.ncalls)
               ELSE pc' = "process" /\ UNCHANGED <<base, cur, owed>>
            /\ UNCHANGED activeq
    /\ UNCHANGED <<event_tv, event_break, event_gotsig, lflags, until, tnow,
                   timeVars, due, cancelled>>

-----------------------------------------------------------------------------
(***************************************************************************)
(* event_base_free: delete the registered events and the timers, then free *)
(* the backend, which deletes ev_signal.                                   *)
(***************************************************************************)
FreeStart ==
    /\ pc = "idle"
    /\ pc' = "free"
    /\ UNCHANGED <<base, event_tv, flagVars, eonce, loopVars, timeVars, histVars>>

ToDelete == (On(base, "INSERTED") \ {ev_signal}) \cup On(base, "TIMEOUT")

FreeDelete(e) ==
    /\ pc = "free"
    /\ e \in ToDelete
    /\ base' = event_del(base, e)
    /\ UNCHANGED <<event_tv, flagVars, eonce, pc, loopVars, timeVars, histVars>>

FreeDone ==
    /\ pc = "free" /\ ToDelete = {}
    /\ base' = IF base.ev_signal_added
               THEN [event_del(base, ev_signal) EXCEPT !.ev_signal_added = FALSE]
               ELSE base
    /\ pc' = "freed"
    /\ UNCHANGED <<event_tv, flagVars, eonce, loopVars, timeVars, histVars>>

-----------------------------------------------------------------------------
(***************************************************************************)
(* Time.                                                                   *)
(***************************************************************************)
Tick ==
    /\ clock < MaxClock
    /\ clock' = clock + 1
    /\ UNCHANGED <<base, event_tv, flagVars, eonce, pc, loopVars, skew, histVars>>

\* Someone sets the clock of the machine back.
SetBack ==
    /\ ~use_monotonic
    /\ skew > -MaxSkew
    /\ skew' = skew - 1
    /\ UNCHANGED <<base, event_tv, flagVars, eonce, pc, loopVars, clock, histVars>>

-----------------------------------------------------------------------------
Accepted == {Event \ R : R \in SUBSET Refusable}

Api ==
    \/ \E e \in UserEvent, tv \in Timeouts \cup {NoTimeout}, ok \in Accepted :
          EventAdd(e, tv, ok)
    \/ \E e \in UserEvent : EventDel(e)
    \/ \E e \in UserEvent, n \in Ncalls : EventActive(e, n)
    \/ \E e \in UserEvent, pri \in 0..(NPri - 1) : EventPrioritySet(e, pri)
    \/ \E n \in 1..NPri : EventBasePriorityInit(n)
    \/ \E o \in Once, tv \in Timeouts \cup {NoTimeout}, what \in {"user", "exit"},
          ok \in Accepted : EventBaseOnce(o, tv, what, ok)
    \/ EventBaseLoopbreak

Loop ==
    \/ LoopTerminated \/ LoopBroken \/ LoopSigcb \/ LoopWait
    \/ DispatchWake \/ DispatchError
    \/ \E e \in Event, res \in SUBSET Io : ActivateIo(e, res)
    \/ \E e \in Event, n \in Ncalls : ActivateSignal(e, n)
    \/ DispatchDone
    \/ \E e \in Event : TimeoutExpire(e)
    \/ ProcessActive \/ NothingActive
    \/ TakeEvent \/ QueueDone \/ CallbackReturn

Free == FreeStart \/ (\E e \in Event : FreeDelete(e)) \/ FreeDone

Next ==
    \/ Api
    \/ GotSig
    \/ \E f \in LoopFlags : LoopEnter(f)
    \/ Loop
    \/ Free
    \/ Tick
    \/ SetBack

Spec == Init /\ [][Next]_vars

-----------------------------------------------------------------------------
(***************************************************************************)
(* Properties.                                                             *)
(***************************************************************************)

\* Every variable has its type.
TypeOK ==
    /\ base \in BaseType
    /\ event_tv \in Int
    /\ event_gotterm \in BOOLEAN /\ event_break \in BOOLEAN
    /\ event_gotsig \in BOOLEAN
    /\ eonce \in [Once -> {"free", "user", "exit"}]
    /\ pc \in PcValues
    /\ lflags \subseteq {"ONCE", "NONBLOCK"}
    /\ until \in Int /\ tnow \in Int
    /\ activeq \in Nat \ {0}
    /\ cur \in Event
    /\ clock \in Nat /\ skew \in Int
    /\ due \in [Event -> Int]
    /\ cancelled \subseteq Event /\ owed \subseteq Event

\* The counters are exact: event_count, which decides when the loop has
\* nothing left to wait for, counts the list memberships of the user's events,
\* and event_count_active, which decides whether the loop may sleep, counts
\* the active events.
CountersExact == CountersAgree(base)

\* An event is in an active queue exactly when it carries the flag, there only
\* once, and in the queue of its own priority, so TAILQ_REMOVE with ev_pri
\* always unlinks it from the list it is really on.
ActiveQueuesExact == QueuesAgree(base)

\* The fatal errors of event_queue_insert and event_queue_remove are never
\* reached, whatever the application calls.
NoFatalError == ~base.errx

\* The backend never waits past the moment there is something to do: with an
\* active event it only polls, and with timers it wakes at the earliest one.
\* A callback that arms a timer or activates an event cannot be overslept.
NeverOversleeps ==
    pc = "dispatch" =>
        /\ base.event_count_active # 0 => until # NoTimeout /\ until <= clock
        /\ \A e \in On(base, "TIMEOUT") :
              /\ until # NoTimeout
              /\ until <= clock \/ until + skew <= base.ev_timeout[e]

\* A timer is never reported before the interval given to event_add is over
\* ("in at least the time specified in the tv", event.h).
TimerNotEarly ==
    \A e \in On(base, "ACTIVE") :
        "TIMEOUT" \in base.ev_res[e] => clock >= due[e]

\* What the application armed and neither deleted nor saw called is still on
\* some list, so its callback is still to come: no sequence of re-adding,
\* expiring, activating and removing loses an event.
ArmedStaysScheduled ==
    pc \notin {"free", "freed"} => \A e \in owed : base.flags[e] # {}


\* While a signal event waits, the loop watches the socket pair that the
\* signal handler writes to: nothing takes ev_signal off the backend again.
SignalsWatched ==
    pc \notin {"free", "freed"} /\ On(base, "SIGNAL") # {} =>
        "INSERTED" \in base.flags[ev_signal]

\* This step invokes a callback.
Invokes == (TakeEvent \/ CallbackReturn) /\ pc' = "callback"


\* Among the events that are active when event_process_active chooses its
\* queue, the most urgent come first: it never starts on a queue while a more urgent one has an event.
UrgentQueueFirst ==
    [][pc = "timeouts" /\ pc' = "process" =>
          \A e \in On(base, "ACTIVE") : base.ev_pri[e] + 1 >= activeq']_vars

-----------------------------------------------------------------------------
(***************************************************************************)
(* Fairness: the thread runs, callbacks return, time passes, and the wait  *)
(* of the backend ends when its time is up.  Nothing is assumed about      *)
(* descriptors becoming ready, signals, errors or the application.         *)
(***************************************************************************)
WaitOver == until # NoTimeout /\ until <= clock

Progress ==
    \/ LoopTerminated \/ LoopBroken \/ LoopSigcb \/ LoopWait
    \/ WaitOver /\ DispatchWake
    \/ DispatchDone
    \/ \E e \in Event : TimeoutExpire(e)
    \/ ProcessActive \/ NothingActive
    \/ TakeEvent \/ QueueDone \/ CallbackReturn

FairSpec == Spec /\ WF_vars(Progress) /\ WF_vars(Tick)

Stopped == pc \in {"idle", "free", "freed"}

\* While the loop runs, a timer that is not deleted or re-armed for ever
\* expires: the loop cannot sleep through it.  Callbacks that keep activating
\* each other in one queue keep event_process_active from ever returning, so
\* this is said of behaviours where it always returns.
TimersExpire ==
    []<>(pc \notin {"process", "callback"}) =>
        \A e \in Event : e \in On(base, "TIMEOUT") ~>
                            (e \notin On(base, "TIMEOUT") \/ Stopped)

\* While the loop runs, an active event gets its turn even if other callbacks
\* keep activating themselves (in one queue; a more urgent queue may starve it).
ActiveServed ==
    \A e \in Event : e \in On(base, "ACTIVE") ~>
                        (e \notin On(base, "ACTIVE") \/ Stopped)
=============================================================================
