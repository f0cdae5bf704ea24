----------------------------- MODULE TimerProofs -----------------------------
(***************************************************************************)
(* With a monotonic clock no timer is reported early, for any number of    *)
(* events and timeouts and whatever the application calls.                 *)
(***************************************************************************)
EXTENDS EventLoopProofs

(***************************************************************************)
(* A timer in the heap expires no earlier than it is due, and a timer that *)
(* was reported is due.                                                    *)
(***************************************************************************)
TimersRight(b, d, now) ==
    \A e \in Event :
        /\ "TIMEOUT" \in b.flags[e] => d[e] <= b.ev_timeout[e]
        /\ "ACTIVE" \in b.flags[e] /\ "TIMEOUT" \in b.ev_res[e] => d[e] <= now

(***************************************************************************)
(* The strengthening of TimerNotEarly: the heap must be right too, and the *)
(* time timeout_process works with is not in the future.                   *)
(***************************************************************************)
TimerInv ==
    /\ skew = 0
    /\ TimersRight(base, due, clock)
    /\ pc = "timeouts" => tnow <= clock

\* Leaving a list cannot hurt.
LEMMA FewerLists ==
    ASSUME NEW b, NEW c, NEW d, NEW now, TimersRight(b, d, now), SameTimes(b, c),
           \A f \in Event : c.flags[f] \subseteq b.flags[f] \/ SameAT(b, c, f)
    PROVE  TimersRight(c, d, now)
BY DEF TimersRight, SameTimes, SameAT

LEMMA DelTimers ==
    ASSUME NEW b, BaseInv(b), NEW e \in Event, NEW d, NEW now, TimersRight(b, d, now)
    PROVE  TimersRight(event_del(b, e), d, now)
<1> DEFINE c == event_del(b, e)
<1>1. /\ SameTimes(b, c)
      /\ "TIMEOUT" \notin c.flags[e] /\ "ACTIVE" \notin c.flags[e]
      /\ \A f \in Event \ {e} : c.flags[f] = b.flags[f]
  BY DelKeeps
<1> HIDE DEF c
<1> QED BY <1>1 DEF TimersRight, SameTimes, c

LEMMA RemoveTimers ==
    ASSUME NEW b, BaseInv(b), NEW e \in Event, "ACTIVE" \in b.flags[e],
           NEW d, NEW now, TimersRight(b, d, now)
    PROVE  TimersRight(event_queue_remove(b, e, "ACTIVE"), d, now)
<1> DEFINE c == event_queue_remove(b, e, "ACTIVE")
<1>1. SameTimes(b, c) /\ c.flags = [b.flags EXCEPT ![e] = @ \ {"ACTIVE"}]
  BY RemoveKeeps DEF Lists
<1>2. b.flags \in [Event -> SUBSET Lists]
  BY DEF BaseInv, BaseType
<1> HIDE DEF c
<1>3. \A f \in Event : c.flags[f] \subseteq b.flags[f]
  BY <1>1, <1>2
<1> QED BY <1>1, <1>3, FewerLists DEF c

\* Activating an event, for a timeout only if it is due.
LEMMA ActiveTimers ==
    ASSUME NEW b, BaseInv(b), NEW e \in Event, NEW res \in SUBSET Result, NEW n \in Nat,
           NEW d, NEW now, TimersRight(b, d, now),
           "TIMEOUT" \in res => d[e] <= now
    PROVE  TimersRight(event_active(b, e, res, n), d, now)
<1> DEFINE c == event_active(b, e, res, n)
<1>1. /\ c.ev_timeout = b.ev_timeout
      /\ c.flags = [b.flags EXCEPT ![e] = @ \cup {"ACTIVE"}]
      /\ c.ev_res = [b.ev_res EXCEPT ![e] =
                        IF "ACTIVE" \in b.flags[e] THEN @ \cup res ELSE res]
  BY ActiveKeeps
<1>2. b.flags \in [Event -> SUBSET Lists] /\ b.ev_res \in [Event -> SUBSET Result]
  BY DEF BaseInv, BaseType
<1> HIDE DEF c
<1>3. \A f \in Event :
        /\ "TIMEOUT" \in c.flags[f] <=> "TIMEOUT" \in b.flags[f]
        /\ f # e => c.flags[f] = b.flags[f] /\ c.ev_res[f] = b.ev_res[f]
  BY <1>1, <1>2
<1>4. c.ev_res[e] = IF "ACTIVE" \in b.flags[e] THEN b.ev_res[e] \cup res ELSE res
  BY <1>1, <1>2
<1>5. "TIMEOUT" \in c.ev_res[e] => d[e] <= now
  BY <1>4 DEF TimersRight
<1> QED BY <1>1, <1>3, <1>5 DEF TimersRight, c

\* event_add with the deadline it is given.
LEMMA AddTimers ==
    ASSUME NEW b, BaseInv(b), NEW e \in Event, NEW tv \in Int, NEW now \in Int, NEW ok,
           NEW d \in [Event -> Int], TimersRight(b, d, now)
    PROVE  TimersRight(event_add(b, e, tv, now, ok),
                       IF tv = NoTimeout THEN d ELSE [d EXCEPT ![e] = now + tv],
                       now)
<1> DEFINE c == event_add(b, e, tv, now, ok)
           dd == IF tv = NoTimeout THEN d ELSE [d EXCEPT ![e] = now + tv]
<1>1. /\ c.ev_res = b.ev_res
      /\ \A f \in Event \ {e} : SameAT(b, c, f)
      /\ tv = NoTimeout => SameAT(b, c, e) /\ c.ev_timeout = b.ev_timeout
      /\ tv # NoTimeout =>
            /\ c.ev_timeout = [b.ev_timeout EXCEPT ![e] = now + tv]
            /\ "ACTIVE" \in c.flags[e] => "TIMEOUT" \notin c.ev_res[e]
  BY AddKeeps
<1>2. b.ev_timeout \in [Event -> Int]
  BY DEF BaseInv, BaseType
<1> HIDE DEF c
<1>3. CASE tv = NoTimeout
  BY <1>1, <1>3 DEF TimersRight, SameAT, c
<1>4. CASE tv # NoTimeout
  <2>1. dd = [d EXCEPT ![e] = now + tv]
    BY <1>4
  <2> HIDE DEF dd
  <2>2. \A f \in Event \ {e} : dd[f] = d[f] /\ c.ev_timeout[f] = b.ev_timeout[f]
    BY <1>1, <1>2, <1>4, <2>1
  <2>3. dd[e] = now + tv /\ c.ev_timeout[e] = now + tv /\ now + tv \in Int
    BY <1>1, <1>2, <1>4, <2>1
  <2>4. TimersRight(c, dd, now)
    BY <1>1, <1>4, <2>2, <2>3 DEF TimersRight, SameAT
  <2> QED BY <2>4 DEF c, dd
<1> QED BY <1>3, <1>4

-----------------------------------------------------------------------------
LEMMA TimerInit == Init => TimerInv
<1> SUFFICES ASSUME Init PROVE TimerInv
  OBVIOUS
<1>1. base.flags = [e \in Event |-> {}]
  BY DEF Init, NewBase
<1> QED BY <1>1 DEF Init, TimerInv, TimersRight

\* A step that leaves the record, the deadlines and the clock alone, and is
\* not the one that enters timeout_process.
LEMMA OtherTimers ==
    ASSUME TimerInv, TimersRight(base', due, clock), UNCHANGED <<due, clock, skew>>,
           pc' # "timeouts" \/ UNCHANGED <<pc, tnow>>
    PROVE  TimerInv'
BY DEF TimerInv, TimersRight

LEMMA ApiTimers == LoopInv /\ TimerInv /\ Api => TimerInv'
<1> SUFFICES ASSUME LoopInv, TimerInv, Api PROVE TimerInv'
  OBVIOUS
<1>0. /\ BaseInv(base) /\ base \in BaseType /\ due \in [Event -> Int] /\ clock \in Nat
      /\ UserEvent \subseteq Event /\ Once \subseteq Event
      /\ gettime = clock /\ TimersRight(base, due, clock)
      /\ \A tv \in Timeouts \cup {NoTimeout} : tv \in Int
  BY LoopAssumption DEF LoopInv, TypeOK, UserEvent, gettime, TimerInv, NoTimeout
<1>00. InUserCode => pc # "timeouts"
  BY DEF InUserCode
<1>1. ASSUME NEW e \in UserEvent, NEW tv \in Timeouts \cup {NoTimeout}, NEW ok,
             EventAdd(e, tv, ok)
      PROVE  TimerInv'
  <2>1. TimersRight(base', due', clock)
    <3>1. /\ base' = event_add(base, e, tv, clock, ok)
          /\ due' = IF tv = NoTimeout THEN due ELSE [due EXCEPT ![e] = clock + tv]
      BY <1>0, <1>1 DEF EventAdd
    <3>2. e \in Event /\ tv \in Int /\ clock \in Int
      BY <1>0
    <3>3. TimersRight(event_add(base, e, tv, clock, ok),
                      IF tv = NoTimeout THEN due ELSE [due EXCEPT ![e] = clock + tv],
                      clock)
      BY <1>0, <3>2, AddTimers
    <3> QED BY <3>1, <3>3
  <2> QED BY <1>00, <1>1, <2>1 DEF EventAdd, TimerInv, timeVars, TimersRight
<1>2. ASSUME NEW e \in UserEvent, EventDel(e)
      PROVE  TimerInv'
  <2>1. TimersRight(base', due, clock)
    BY <1>0, <1>2, DelTimers DEF EventDel
  <2> QED BY <1>2, <2>1, OtherTimers DEF EventDel, timeVars, loopVars
<1>3. ASSUME NEW e \in UserEvent, NEW n \in Ncalls, EventActive(e, n)
      PROVE  TimerInv'
  <2>1. {"READ"} \in SUBSET Result /\ n \in Nat /\ "TIMEOUT" \notin {"READ"}
    BY LoopAssumption DEF Result, Io
  <2>2. TimersRight(base', due, clock)
    BY <1>0, <1>3, <2>1, ActiveTimers DEF EventActive
  <2> QED BY <1>3, <2>2, OtherTimers DEF EventActive, timeVars, loopVars
<1>4. ASSUME NEW e \in UserEvent, NEW pri, EventPrioritySet(e, pri)
      PROVE  TimerInv'
  <2>1. /\ base'.flags = base.flags /\ base'.ev_timeout = base.ev_timeout
        /\ base'.ev_res = base.ev_res
    BY <1>0, <1>4 DEF EventPrioritySet, BaseType
  <2>2. TimersRight(base', due, clock)
    BY <1>0, <2>1 DEF TimersRight
  <2> QED BY <1>4, <2>2, OtherTimers DEF EventPrioritySet, timeVars, loopVars, histVars
<1>5. ASSUME NEW n, EventBasePriorityInit(n)
      PROVE  TimerInv'
  <2> DEFINE Q == [i \in 1..n |-> <<>>]
  <2>1. base' = [base EXCEPT !.activequeues = Q]
    BY <1>5 DEF EventBasePriorityInit
  <2> HIDE DEF Q
  <2>2. /\ base'.flags = base.flags /\ base'.ev_timeout = base.ev_timeout
        /\ base'.ev_res = base.ev_res
    BY <1>0, <2>1 DEF BaseType
  <2>3. TimersRight(base', due, clock)
    BY <1>0, <2>2 DEF TimersRight
  <2> QED BY <1>5, <2>3, OtherTimers DEF EventBasePriorityInit, timeVars, loopVars, histVars
<1>6. ASSUME NEW o \in Once, NEW tv \in Timeouts \cup {NoTimeout},
             NEW what, NEW ok, EventBaseOnce(o, tv, what, ok)
      PROVE  TimerInv'
  <2> DEFINE pri == nactivequeues(base) \div 2
             b == [base EXCEPT !.ev_pri[o] = pri, !.ev_res[o] = {},
                               !.ev_ncalls[o] = 0, !.ev_pncalls[o] = FALSE]
             t == IF ev_events[o] = {} /\ tv = NoTimeout THEN 0 ELSE tv
  <2>1. o \in Event /\ base.flags[o] = {} /\ t \in Int
    BY <1>0, <1>6 DEF EventBaseOnce
  <2>2. pri \in Nat /\ pri < nactivequeues(base)
    <3>1. nactivequeues(base) \in Nat /\ nactivequeues(base) > 0
      BY <1>0, <2>1, QueueBounds DEF BaseInv
    <3> QED BY <3>1
  <2>3. /\ base' = event_add(b, o, t, gettime, ok)
        /\ due' = IF t = NoTimeout THEN due ELSE [due EXCEPT ![o] = clock + t]
    BY <1>6 DEF EventBaseOnce
  <2> HIDE DEF pri
  <2>4. /\ b \in BaseType
        /\ b.ev_pri = [base.ev_pri EXCEPT ![o] = pri]
        /\ b.flags = base.flags /\ b.activequeues = base.activequeues
        /\ b.event_count = base.event_count /\ b.errx = base.errx
        /\ b.event_count_active = base.event_count_active
        /\ b.ev_timeout = base.ev_timeout
        /\ b.ev_res = [base.ev_res EXCEPT ![o] = {}]
    BY <1>0, <2>1, <2>2 DEF BaseType
  <2> HIDE DEF b
  <2>5. BaseInv(b)
    BY <1>0, <2>1, <2>2, <2>4, PriorityLemma
  <2>6. TimersRight(b, due, clock)
    <3>1. base.ev_res \in [Event -> SUBSET Result]
      BY <1>0 DEF BaseType
    <3> QED BY <1>0, <2>1, <2>4, <3>1 DEF TimersRight
  <2> HIDE DEF t
  <2>7. TimersRight(base', due', clock)
    <3>1. base' = event_add(b, o, t, clock, ok) /\ clock \in Int
      BY <1>0, <2>3
    <3>2. TimersRight(event_add(b, o, t, clock, ok),
                      IF t = NoTimeout THEN due ELSE [due EXCEPT ![o] = clock + t],
                      clock)
      BY <1>0, <2>1, <2>5, <2>6, <3>1, AddTimers
    <3> QED BY <2>3, <3>1, <3>2
  <2> QED BY <1>00, <1>6, <2>7 DEF EventBaseOnce, TimerInv, timeVars, TimersRight
<1>7. ASSUME EventBaseLoopbreak
      PROVE  TimerInv'
  BY <1>0, <1>7, OtherTimers DEF EventBaseLoopbreak, timeVars, loopVars, histVars
<1> QED BY <1>1, <1>2, <1>3, <1>4, <1>5, <1>6, <1>7 DEF Api

\* Steps that do not touch the record.
LEMMA QuietTimers ==
    ASSUME TimerInv, UNCHANGED <<base, due, clock, skew>>,
           pc' # "timeouts" \/ UNCHANGED <<pc, tnow>>
    PROVE  TimerInv'
BY DEF TimerInv, TimersRight

\* Steps that change only the call counts of the record b.
LEMMA CountTimers ==
    ASSUME TimerInv, NEW b, TimersRight(b, due, clock),
           base'.flags = b.flags, SameTimes(b, base'),
           UNCHANGED <<due, clock, skew>>, pc' # "timeouts"
    PROVE  TimerInv'
BY DEF TimerInv, TimersRight, SameTimes

LEMMA ReportTimers ==
    LoopInv /\ TimerInv
        /\ (\/ \E e \in Event, res \in SUBSET Io : ActivateIo(e, res)
            \/ \E e \in Event, n \in Ncalls : ActivateSignal(e, n)
            \/ \E e \in Event : TimeoutExpire(e)
            \/ \E e \in Event : FreeDelete(e))
        => TimerInv'
<1> SUFFICES ASSUME LoopInv, TimerInv PROVE
        (\/ \E e \in Event, res \in SUBSET Io : ActivateIo(e, res)
         \/ \E e \in Event, n \in Ncalls : ActivateSignal(e, n)
         \/ \E e \in Event : TimeoutExpire(e)
         \/ \E e \in Event : FreeDelete(e)) => TimerInv'
  OBVIOUS
<1>0. BaseInv(base) /\ TimersRight(base, due, clock)
  BY DEF LoopInv, TimerInv
<1>1. ASSUME NEW e \in Event, NEW res \in SUBSET Io, ActivateIo(e, res)
      PROVE  TimerInv'
  <2>1. res \in SUBSET Result /\ "TIMEOUT" \notin res /\ 1 \in Nat
    BY DEF Result, Io
  <2>2. TimersRight(base', due, clock)
    BY <1>0, <1>1, <2>1, ActiveTimers DEF ActivateIo
  <2> QED BY <1>1, <2>2, OtherTimers DEF ActivateIo, timeVars, loopVars, histVars
<1>2. ASSUME NEW e \in Event, NEW n \in Ncalls, ActivateSignal(e, n)
      PROVE  TimerInv'
  <2> DEFINE b == IF "PERSIST" \in ev_events[e] THEN base ELSE event_del(base, e)
  <2>1. BaseInv(b) /\ TimersRight(b, due, clock)
    BY <1>0, DelKeeps, DelTimers DEF Keeps
  <2>2. base' = event_active(b, e, {"SIGNAL"}, n)
    BY <1>2 DEF ActivateSignal
  <2>3. {"SIGNAL"} \in SUBSET Result /\ "TIMEOUT" \notin {"SIGNAL"} /\ n \in Nat
    BY LoopAssumption DEF Result
  <2> HIDE DEF b
  <2>4. TimersRight(base', due, clock)
    BY <2>1, <2>2, <2>3, ActiveTimers
  <2> QED BY <1>2, <2>4, OtherTimers DEF ActivateSignal, timeVars, loopVars, histVars
<1>3. ASSUME NEW e \in Event, TimeoutExpire(e)
      PROVE  TimerInv'
  <2> DEFINE b == event_del(base, e)
  <2>1. BaseInv(b) /\ TimersRight(b, due, clock)
    BY <1>0, DelKeeps, DelTimers DEF Keeps
  <2>2. base' = event_active(b, e, {"TIMEOUT"}, 1)
    BY <1>3 DEF TimeoutExpire
  <2>3. due[e] <= clock
    <3>1. "TIMEOUT" \in base.flags[e] /\ base.ev_timeout[e] <= tnow /\ tnow <= clock
      BY <1>3 DEF TimeoutExpire, IsTop, On, TimerInv
    <3>2. due[e] <= base.ev_timeout[e]
      BY <1>0, <3>1 DEF TimersRight
    <3>3. due[e] \in Int /\ base.ev_timeout[e] \in Int /\ tnow \in Int /\ clock \in Int
      BY DEF LoopInv, TypeOK, BaseType
    <3> QED BY <3>1, <3>2, <3>3
  <2>4. {"TIMEOUT"} \in SUBSET Result /\ 1 \in Nat
    BY DEF Result
  <2> HIDE DEF b
  <2>5. TimersRight(base', due, clock)
    BY <2>1, <2>2, <2>3, <2>4, ActiveTimers
  <2> QED BY <1>3, <2>5, OtherTimers DEF TimeoutExpire, timeVars, loopVars, histVars
<1>4. ASSUME NEW e \in Event, FreeDelete(e)
      PROVE  TimerInv'
  <2>1. TimersRight(base', due, clock)
    BY <1>0, <1>4, DelTimers DEF FreeDelete
  <2> QED BY <1>4, <2>1, OtherTimers DEF FreeDelete, timeVars, loopVars, histVars
<1> QED BY <1>1, <1>2, <1>3, <1>4

LEMMA ProcessTimers ==
    LoopInv /\ TimerInv
        /\ (ProcessActive \/ TakeEvent \/ QueueDone \/ CallbackReturn \/ FreeDone)
        => TimerInv'
<1> SUFFICES ASSUME LoopInv, TimerInv PROVE
        (ProcessActive \/ TakeEvent \/ QueueDone \/ CallbackReturn \/ FreeDone)
            => TimerInv'
  OBVIOUS
<1>0. /\ BaseInv(base) /\ base \in BaseType /\ TimersRight(base, due, clock)
      /\ ev_signal \in Event
  BY EventAssumption DEF LoopInv, TypeOK, TimerInv
<1>1. ASSUME ProcessActive PROVE TimerInv'
  <2>1. base'.flags = base.flags /\ SameTimes(base, base')
    BY <1>0, <1>1 DEF ProcessActive, BaseType, SameTimes
  <2> QED BY <1>0, <1>1, <2>1, CountTimers DEF ProcessActive, timeVars, histVars
<1>2. ASSUME TakeEvent PROVE TimerInv'
  <2> DEFINE e == Head(base.activequeues[activeq])
             b == IF "PERSIST" \in ev_events[e]
                  THEN event_queue_remove(base, e, "ACTIVE")
                  ELSE event_del(base, e)
  <2>1. e \in Event /\ "ACTIVE" \in base.flags[e]
    BY <1>2, HeadLemma DEF TakeEvent
  <2>2. Taken(e) = [b EXCEPT !.ncalls = b.ev_ncalls[e], !.ev_pncalls[e] = TRUE]
    BY DEF Taken
  <2>3. \/ base' = Taken(e) /\ pc' = pc
        \/ Invoke(Taken(e), e, Taken(e).ncalls)
    BY <1>2 DEF TakeEvent
  <2> HIDE DEF e
  <2>4. TimersRight(b, due, clock) /\ b \in BaseType
    <3>1. /\ event_queue_remove(base, e, "ACTIVE") \in BaseType
          /\ event_del(base, e) \in BaseType
      BY <1>0, <2>1, RemoveKeeps, DelKeeps DEF Keeps, BaseInv, Lists
    <3> QED BY <1>0, <2>1, <3>1, RemoveTimers, DelTimers
  <2> HIDE DEF b
  <2>5. Taken(e) \in BaseType /\ Taken(e).flags = b.flags /\ SameTimes(b, Taken(e))
    <3> DEFINE c == [b EXCEPT !.ncalls = b.ev_ncalls[e], !.ev_pncalls[e] = TRUE]
    <3>1. /\ c \in BaseType /\ c.flags = b.flags
          /\ c.ev_timeout = b.ev_timeout /\ c.ev_res = b.ev_res
      BY <2>1, <2>4 DEF BaseType
    <3> HIDE DEF c
    <3> QED BY <2>2, <3>1 DEF SameTimes, c
  <2>6. base'.flags = b.flags /\ SameTimes(b, base') /\ pc' # "timeouts"
    <3>1. CASE base' = Taken(e) /\ pc' = pc
      BY <1>2, <2>5, <3>1 DEF TakeEvent
    <3>2. CASE Invoke(Taken(e), e, Taken(e).ncalls)
      BY <2>1, <2>5, <3>2 DEF Invoke, BaseType, SameTimes
    <3> QED BY <2>3, <3>1, <3>2
  <2> QED BY <1>2, <2>4, <2>6, CountTimers DEF TakeEvent, timeVars
<1>3. ASSUME QueueDone PROVE TimerInv'
  <2>1. base'.flags = base.flags /\ SameTimes(base, base') /\ pc' # "timeouts"
    BY <1>0, <1>3 DEF QueueDone, ProcessReturn, BaseType, SameTimes
  <2> QED BY <1>0, <1>3, <2>1, CountTimers DEF QueueDone, timeVars, histVars
<1>4. ASSUME CallbackReturn PROVE TimerInv'
  <2>1. \/ ProcessReturn(base)
        \/ Invoke(base, cur, base.ncalls)
        \/ pc' = "process" /\ UNCHANGED base
    BY <1>4 DEF CallbackReturn
  <2>2. base'.flags = base.flags /\ SameTimes(base, base') /\ pc' # "timeouts"
    <3>1. CASE ProcessReturn(base)
      BY <1>0, <3>1 DEF ProcessReturn, BaseType, SameTimes
    <3>2. CASE Invoke(base, cur, base.ncalls)
      BY <1>0, <3>2 DEF Invoke, BaseType, SameTimes
    <3>3. CASE pc' = "process" /\ UNCHANGED base
      BY <3>3 DEF SameTimes
    <3> QED BY <2>1, <3>1, <3>2, <3>3
  <2> QED BY <1>0, <1>4, <2>2, CountTimers DEF CallbackReturn, timeVars
<1>5. ASSUME FreeDone PROVE TimerInv'
  <2> DEFINE b == event_del(base, ev_signal)
  <2>1. TimersRight(b, due, clock) /\ b \in BaseType
    BY <1>0, DelTimers, DelKeeps DEF Keeps, BaseInv
  <2>2. base' = [b EXCEPT !.ev_signal_added = FALSE] \/ base' = base
    BY <1>5 DEF FreeDone
  <2> HIDE DEF b
  <2>3. CASE base' = [b EXCEPT !.ev_signal_added = FALSE]
    <3>1. base'.flags = b.flags /\ SameTimes(b, base')
      BY <2>1, <2>3 DEF BaseType, SameTimes
    <3> QED BY <1>5, <2>1, <3>1, CountTimers DEF FreeDone, timeVars, histVars
  <2>4. CASE base' = base
    BY <1>5, <2>4, QuietTimers DEF FreeDone, timeVars, histVars
  <2> QED BY <2>2, <2>3, <2>4
<1> QED BY <1>1, <1>2, <1>3, <1>4, <1>5

LEMMA TimerNext ==
    ASSUME use_monotonic
    PROVE  LoopInv /\ TimerInv /\ [Next]_vars => TimerInv'
<1> SUFFICES ASSUME LoopInv, TimerInv, [Next]_vars PROVE TimerInv'
  OBVIOUS
<1> USE DEF vars, flagVars, loopVars, timeVars, histVars
<1>0. clock \in Nat /\ due \in [Event -> Int] /\ skew = 0 /\ gettime = clock
  BY DEF LoopInv, TypeOK, TimerInv, gettime
<1>1. CASE UNCHANGED vars
  BY <1>1, QuietTimers
<1>2. ASSUME \/ GotSig \/ LoopTerminated \/ LoopBroken \/ LoopSigcb
             \/ (\E f \in LoopFlags : LoopEnter(f))
             \/ DispatchWake \/ DispatchError \/ NothingActive \/ FreeStart
      PROVE  TimerInv'
  BY <1>2, QuietTimers DEF GotSig, LoopTerminated, LoopBroken, LoopSigcb, LoopEnter,
        DispatchWake, DispatchError, NothingActive, FreeStart
<1>3. ASSUME LoopWait PROVE TimerInv'
  <2>1. UNCHANGED base /\ pc' # "timeouts"
    BY <1>3 DEF LoopWait, timeout_correct
  <2> QED BY <1>3, <2>1, QuietTimers DEF LoopWait
<1>4. ASSUME DispatchDone PROVE TimerInv'
  BY <1>0, <1>4 DEF DispatchDone, TimerInv, TimersRight
<1>5. ASSUME Tick PROVE TimerInv'
  <2>1. \A e \in Event : due[e] <= clock => due[e] <= clock'
    BY <1>0, <1>5 DEF Tick
  <2>2. tnow \in Int
    BY DEF LoopInv, TypeOK
  <2> QED BY <1>0, <1>5, <2>1, <2>2 DEF Tick, TimerInv, TimersRight
<1>6. ~SetBack
  BY DEF SetBack
<1>7. CASE Next
  BY <1>2, <1>3, <1>4, <1>5, <1>6, <1>7, ApiTimers, ReportTimers, ProcessTimers
     DEF Next, Loop, Free
<1> QED BY <1>1, <1>7

(***************************************************************************)
(* On a clock that never runs backwards, event_add, timeout_process and    *)
(* event_active never report a timer before its interval is over, however  *)
(* often the timer is re-armed, deleted or activated by hand in between.   *)
(***************************************************************************)
THEOREM TimersNeverEarly ==
    ASSUME use_monotonic
    PROVE  Spec => []TimerNotEarly
<1>1. LoopInv /\ TimerInv => TimerNotEarly
  <2> SUFFICES ASSUME LoopInv, TimerInv PROVE TimerNotEarly
    OBVIOUS
  <2>1. clock \in Nat /\ \A e \in Event : due[e] \in Int
    BY DEF LoopInv, TypeOK
  <2> QED BY <2>1 DEF TimerNotEarly, TimerInv, TimersRight, On
<1>2. LoopInv /\ TimerInv /\ [Next]_vars => TimerInv'
  BY TimerNext
<1> QED BY <1>1, <1>2, TimerInit, LoopInvariant, PTL DEF Spec
=============================================================================
