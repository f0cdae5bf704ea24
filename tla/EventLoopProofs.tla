--------------------------- MODULE EventLoopProofs ---------------------------
(***************************************************************************)
(* The books of the event loop are right for any number of events,         *)
(* priorities and timeouts, whatever the application calls, and the loop   *)
(* never sleeps past its work.                                             *)
(***************************************************************************)
EXTENDS EventLoop, EventBaseProofs

(***************************************************************************)
(* The inductive invariant.  BaseInv is needed whole: the counters are     *)
(* only right while no list operation hits its fatal error, and that needs *)
(* the flags to agree with the queues.  The third conjunct says that       *)
(* event_process_active works on a queue that exists.                      *)
(***************************************************************************)
LoopInv ==
    /\ TypeOK
    /\ BaseInv(base)
    /\ pc \in {"process", "callback"} => activeq <= nactivequeues(base)
    /\ NeverOversleeps

LEMMA NewBaseInv == BaseInv(NewBase(NPri))
<1> DEFINE b == NewBase(NPri)
           Q == [i \in 1..NPri |-> <<>>]
<1>1. NPri \in Nat /\ NPri > 0
  BY LoopAssumption
<1>2. Q \in Seq(Seq(Event)) /\ Len(Q) = NPri /\ \A i \in 1..NPri : Q[i] = <<>>
  <2>1. <<>> \in Seq(Event)
    BY EmptySeq
  <2>2. Q \in [1..NPri -> Seq(Event)]
    BY <2>1
  <2>3. \A i \in 1..NPri : Q[i] = <<>>
    OBVIOUS
  <2> HIDE DEF Q
  <2> QED BY <1>1, <2>2, <2>3, SeqDef, LenProperties
<1>3. NPri \div 2 \in Nat /\ NPri \div 2 < NPri
  BY <1>1
<1>4. /\ b.flags = [e \in Event |-> {}]
      /\ b.ev_pri = [e \in Event |-> IF e = ev_signal THEN 0 ELSE NPri \div 2]
      /\ b.activequeues = Q
      /\ b.event_count = 0 /\ b.event_count_active = 0 /\ ~b.errx
  BY DEF NewBase
<1>5. b \in BaseType
  <2> HIDE DEF Q
  <2>1. [e \in Event |-> IF e = ev_signal THEN 0 ELSE NPri \div 2] \in [Event -> Nat]
    BY <1>3
  <2> QED BY <1>2, <2>1 DEF BaseType, NewBase, Lists, Result, Q
<1> HIDE DEF b, Q
<1>6. Memberships(b) = {} /\ On(b, "ACTIVE") = {}
  BY <1>4 DEF Memberships, On
<1>7. CountersAgree(b)
  BY <1>4, <1>6, FS_EmptySet DEF CountersAgree
<1>8. QueuesAgree(b)
  <2>1. \A e \in Event : b.ev_pri[e] < nactivequeues(b)
    BY <1>1, <1>2, <1>3, <1>4 DEF nactivequeues
  <2>2. \A i \in 1..nactivequeues(b) : Len(b.activequeues[i]) = 0
    BY <1>2, <1>4, EmptySeq DEF nactivequeues
  <2>3. \A e \in Event : "ACTIVE" \notin b.flags[e]
    BY <1>4
  <2> QED BY <2>1, <2>2, <2>3 DEF QueuesAgree, NoDuplicates, Holds
<1> QED BY <1>4, <1>5, <1>7, <1>8 DEF BaseInv, b

LEMMA InitInv == Init => LoopInv
<1> SUFFICES ASSUME Init PROVE LoopInv
  OBVIOUS
<1>1. BaseInv(base)
  BY NewBaseInv DEF Init
<1>2. base \in BaseType
  BY <1>1 DEF BaseInv
<1>3. /\ due \in [Event -> Int] /\ eonce \in [Once -> {"free", "user", "exit"}]
      /\ pc \in PcValues /\ cur \in Event
  BY EventAssumption DEF Init, PcValues
<1>4. /\ event_tv \in Int /\ until \in Int /\ tnow \in Int /\ activeq \in Nat \ {0}
      /\ clock \in Nat /\ skew \in Int
      /\ lflags \subseteq {"ONCE", "NONBLOCK"}
      /\ cancelled \subseteq Event /\ owed \subseteq Event
  BY DEF Init
<1>5. event_gotterm \in BOOLEAN /\ event_break \in BOOLEAN /\ event_gotsig \in BOOLEAN
  BY Zenon DEF Init
<1>6. TypeOK
  BY <1>2, <1>3, <1>4, <1>5, Zenon DEF TypeOK
<1> QED BY <1>1, <1>6 DEF Init, LoopInv, NeverOversleeps

(***************************************************************************)
(* A step that calls an operation of EventBase and stays where it is.      *)
(***************************************************************************)
LEMMA OperationStep ==
    ASSUME LoopInv, BaseInv(base'), nactivequeues(base') = nactivequeues(base),
           pc # "dispatch",
           UNCHANGED <<event_tv, flagVars, pc, loopVars, timeVars>>,
           eonce' \in [Once -> {"free", "user", "exit"}],
           due' \in [Event -> Int],
           cancelled' \subseteq Event, owed' \subseteq Event
    PROVE  LoopInv'
<1>1. base' \in BaseType
  BY DEF BaseInv
<1>2. TypeOK'
  BY <1>1 DEF LoopInv, TypeOK, flagVars, loopVars, timeVars
<1> QED BY <1>2 DEF LoopInv, NeverOversleeps, loopVars

LEMMA UserCodeNotDispatch == LoopInv /\ InUserCode => pc # "dispatch"
BY DEF InUserCode, LoopInv, TypeOK

LEMMA ApiInv == LoopInv /\ Api => LoopInv'
<1> SUFFICES ASSUME LoopInv, Api PROVE LoopInv'
  OBVIOUS
<1>0. /\ BaseInv(base) /\ TypeOK
      /\ UserEvent \subseteq Event /\ Once \subseteq Event
      /\ clock \in Nat /\ skew \in Int /\ gettime \in Int
      /\ eonce \in [Once -> {"free", "user", "exit"}] /\ due \in [Event -> Int]
      /\ cancelled \subseteq Event /\ owed \subseteq Event
      /\ \A tv \in Timeouts \cup {NoTimeout} : tv \in Int
      /\ base \in BaseType
  BY LoopAssumption DEF LoopInv, TypeOK, UserEvent, gettime, NoTimeout
<1>1. ASSUME NEW e \in UserEvent, NEW tv \in Timeouts \cup {NoTimeout}, NEW ok,
             EventAdd(e, tv, ok)
      PROVE  LoopInv'
  <2>1. Keeps(base, base')
    BY <1>0, <1>1, AddKeeps DEF EventAdd
  <2>2. /\ due' \in [Event -> Int] /\ cancelled' \subseteq Event /\ owed' \subseteq Event
    BY <1>0, <1>1 DEF EventAdd
  <2> QED BY <1>0, <1>1, <2>1, <2>2, OperationStep, UserCodeNotDispatch
          DEF EventAdd, Keeps
<1>2. ASSUME NEW e \in UserEvent, EventDel(e)
      PROVE  LoopInv'
  <2>1. Keeps(base, base')
    BY <1>0, <1>2, DelKeeps DEF EventDel
  <2>2. cancelled' \subseteq Event /\ owed' \subseteq Event
    BY <1>0, <1>2 DEF EventDel
  <2> QED BY <1>0, <1>2, <2>1, <2>2, OperationStep, UserCodeNotDispatch
          DEF EventDel, Keeps
<1>3. ASSUME NEW e \in UserEvent, NEW n \in Ncalls, EventActive(e, n)
      PROVE  LoopInv'
  <2>1. Keeps(base, base')
    BY <1>0, <1>3, ActiveKeeps, LoopAssumption DEF EventActive, Result, Io
  <2>2. cancelled' \subseteq Event /\ owed' \subseteq Event
    BY <1>0, <1>3 DEF EventActive
  <2> QED BY <1>0, <1>3, <2>1, <2>2, OperationStep, UserCodeNotDispatch
          DEF EventActive, Keeps
<1>4. ASSUME NEW e \in UserEvent, NEW pri \in 0..(NPri - 1), EventPrioritySet(e, pri)
      PROVE  LoopInv'
  <2>1. pri \in Nat /\ NPri \in Nat
    BY LoopAssumption
  <2>2. /\ base' \in BaseType
        /\ base'.ev_pri = [base.ev_pri EXCEPT ![e] = pri]
        /\ base'.flags = base.flags /\ base'.activequeues = base.activequeues
        /\ base'.event_count = base.event_count /\ base'.errx = base.errx
        /\ base'.event_count_active = base.event_count_active
    BY <1>0, <1>4, <2>1 DEF EventPrioritySet, BaseType
  <2>3. BaseInv(base') /\ nactivequeues(base') = nactivequeues(base)
    BY <1>0, <1>4, <2>1, <2>2, PriorityLemma DEF EventPrioritySet
  <2> QED BY <1>0, <1>4, <2>3, OperationStep, UserCodeNotDispatch
          DEF EventPrioritySet, histVars
<1>5. ASSUME NEW n \in 1..NPri, EventBasePriorityInit(n)
      PROVE  LoopInv'
  <2> DEFINE Q == [i \in 1..n |-> <<>>]
  <2>1. n \in Nat /\ n > 0
    BY LoopAssumption
  <2>2. Q \in Seq(Seq(Event)) /\ Len(Q) = n /\ \A i \in 1..n : Q[i] = <<>>
    <3>1. <<>> \in Seq(Event)
      BY EmptySeq
    <3>2. Q \in [1..n -> Seq(Event)]
      BY <3>1
    <3>3. \A i \in 1..n : Q[i] = <<>>
      OBVIOUS
    <3> HIDE DEF Q
    <3> QED BY <2>1, <3>2, <3>3, SeqDef, LenProperties
  <2>3. base' = [base EXCEPT !.activequeues = Q]
    BY <1>5 DEF EventBasePriorityInit
  <2> HIDE DEF Q
  <2>4. /\ base' \in BaseType
        /\ base'.activequeues = Q
        /\ base'.flags = base.flags /\ base'.ev_pri = base.ev_pri
        /\ base'.event_count = base.event_count /\ base'.errx = base.errx
        /\ base'.event_count_active = base.event_count_active
    BY <1>0, <2>2, <2>3 DEF BaseType
  <2>5. CountersAgree(base')
    BY <1>0, <2>4 DEF BaseInv, CountersAgree, Memberships, On
  <2>6. On(base, "ACTIVE") = {}
    <3>1. base.event_count_active = 0 /\ base.event_count_active = Cardinality(On(base, "ACTIVE"))
      BY <1>0, <1>5 DEF EventBasePriorityInit, BaseInv, CountersAgree
    <3> QED BY <1>0, <3>1, FiniteMemberships, FS_EmptySet
  <2>7. QueuesAgree(base')
    <3>1. \A e \in Event : base'.ev_pri[e] < nactivequeues(base')
      BY <1>5, <2>2, <2>4 DEF EventBasePriorityInit, nactivequeues
    <3>2. \A i \in 1..nactivequeues(base') : Len(base'.activequeues[i]) = 0
      BY <2>2, <2>4, EmptySeq DEF nactivequeues
    <3>3. \A e \in Event : "ACTIVE" \notin base'.flags[e]
      BY <2>4, <2>6 DEF On
    <3> QED BY <3>1, <3>2, <3>3 DEF QueuesAgree, NoDuplicates, Holds
  <2>8. BaseInv(base')
    BY <1>0, <2>4, <2>5, <2>7 DEF BaseInv
  <2>9. TypeOK'
    BY <1>0, <1>5, <2>4 DEF EventBasePriorityInit, TypeOK, flagVars, loopVars,
                            timeVars, histVars
  <2> QED BY <1>5, <2>8, <2>9 DEF EventBasePriorityInit, LoopInv, NeverOversleeps
<1>6. ASSUME NEW o \in Once, NEW tv \in Timeouts \cup {NoTimeout},
             NEW what \in {"user", "exit"}, NEW ok, EventBaseOnce(o, tv, what, ok)
      PROVE  LoopInv'
  <2> DEFINE pri == nactivequeues(base) \div 2
             b == [base EXCEPT !.ev_pri[o] = pri, !.ev_res[o] = {},
                               !.ev_ncalls[o] = 0, !.ev_pncalls[o] = FALSE]
             t == IF ev_events[o] = {} /\ tv = NoTimeout THEN 0 ELSE tv
  <2>1. o \in Event /\ "ACTIVE" \notin base.flags[o] /\ t \in Int
    BY <1>0, <1>6 DEF EventBaseOnce
  <2>2. pri \in Nat /\ pri < nactivequeues(base)
    <3>1. nactivequeues(base) \in Nat /\ nactivequeues(base) > 0
      BY <1>0, <2>1, QueueBounds DEF BaseInv
    <3> QED BY <3>1
  <2>3. base' = event_add(b, o, t, gettime, ok)
    BY <1>6 DEF EventBaseOnce
  <2> HIDE DEF pri
  <2>4. /\ b \in BaseType
        /\ b.ev_pri = [base.ev_pri EXCEPT ![o] = pri]
        /\ b.flags = base.flags /\ b.activequeues = base.activequeues
        /\ b.event_count = base.event_count /\ b.errx = base.errx
        /\ b.event_count_active = base.event_count_active
    BY <1>0, <2>1, <2>2 DEF BaseType
  <2> HIDE DEF b
  <2>5. BaseInv(b) /\ nactivequeues(b) = nactivequeues(base)
    BY <1>0, <2>1, <2>2, <2>4, PriorityLemma
  <2>6. Keeps(b, base')
    BY <1>0, <2>1, <2>3, <2>5, AddKeeps
  <2>7. /\ due' \in [Event -> Int] /\ owed' \subseteq Event
        /\ eonce' \in [Once -> {"free", "user", "exit"}]
    BY <1>0, <1>6, <2>1 DEF EventBaseOnce
  <2> QED BY <1>0, <1>6, <2>5, <2>6, <2>7, OperationStep, UserCodeNotDispatch
          DEF EventBaseOnce, Keeps
<1>7. ASSUME EventBaseLoopbreak
      PROVE  LoopInv'
  BY <1>7 DEF EventBaseLoopbreak, InUserCode, LoopInv, TypeOK, NeverOversleeps,
              loopVars, timeVars, histVars
<1> QED BY <1>1, <1>2, <1>3, <1>4, <1>5, <1>6, <1>7 DEF Api

-----------------------------------------------------------------------------
(***************************************************************************)
(* Steps of the loop before the callbacks.                                 *)
(***************************************************************************)
LEMMA ShiftLemma ==
    ASSUME NEW b, BaseInv(b), NEW off \in Int
    PROVE  LET c == ShiftTimeouts(b, off)
           IN  /\ BaseInv(c) /\ nactivequeues(c) = nactivequeues(b)
               /\ c.flags = b.flags /\ c.event_count_active = b.event_count_active
               /\ c.ev_timeout \in [Event -> Int]
<1> DEFINE T == [e \in Event |-> IF e \in On(b, "TIMEOUT") THEN b.ev_timeout[e] - off
                                                       ELSE b.ev_timeout[e]]
           c == ShiftTimeouts(b, off)
<1>1. b \in BaseType
  BY DEF BaseInv
<1>2. T \in [Event -> Int]
  BY <1>1 DEF BaseType
<1>3. c = [b EXCEPT !.ev_timeout = T]
  BY DEF ShiftTimeouts
<1> HIDE DEF T, c
<1>4. /\ c \in BaseType /\ c.ev_timeout = T
      /\ c.flags = b.flags /\ c.activequeues = b.activequeues /\ c.ev_pri = b.ev_pri
      /\ c.event_count = b.event_count /\ c.errx = b.errx
      /\ c.event_count_active = b.event_count_active
  BY <1>1, <1>2, <1>3 DEF BaseType
<1>5. BaseInv(c)
  BY <1>4, SameBooks
<1> QED BY <1>2, <1>4, <1>5 DEF c, nactivequeues

LEMMA WaitInv == LoopInv /\ LoopWait => LoopInv'
<1> SUFFICES ASSUME LoopInv, LoopWait PROVE LoopInv'
  OBVIOUS
<1>0. /\ BaseInv(base) /\ base \in BaseType /\ clock \in Nat /\ skew \in Int
      /\ event_tv \in Int /\ gettime = clock + skew
  BY DEF LoopInv, TypeOK, gettime
<1>1. BaseInv(base') /\ event_tv' \in Int
  <2>1. CASE UNCHANGED base
    BY <1>0, <2>1 DEF LoopWait, timeout_correct
  <2>2. CASE base' = ShiftTimeouts(base, event_tv - gettime) /\ event_tv' = event_tv
    BY <1>0, <2>2, ShiftLemma
  <2> QED BY <2>1, <2>2 DEF LoopWait, timeout_correct
<1>2. base' \in BaseType /\ base'.ev_timeout \in [Event -> Int]
  BY <1>1 DEF BaseInv, BaseType
<1>3. \A e \in Event : base'.ev_timeout[e] \in Int
  BY <1>2
<1>4. CASE pc' = "idle" /\ UNCHANGED until
  <2>1. TypeOK'
    BY <1>1, <1>2, <1>4 DEF LoopInv, LoopWait, TypeOK, PcValues, flagVars, timeVars, histVars
  <2> QED BY <1>1, <1>4, <2>1 DEF LoopInv, NeverOversleeps
<1>5. CASE pc' = "dispatch" /\ \E wait \in Waits(base') :
                until' = IF wait = NoTimeout THEN NoTimeout ELSE clock + wait
  <2>1. PICK wait \in Waits(base') :
                until' = IF wait = NoTimeout THEN NoTimeout ELSE clock + wait
    BY <1>5
  <2>2. CASE base'.event_count_active = 0 /\ On(base', "TIMEOUT") = {} /\ wait = NoTimeout
    <3>1. until' = NoTimeout
      BY <2>1, <2>2
    <3>2. TypeOK'
      BY <1>1, <1>2, <1>5, <3>1 DEF LoopInv, LoopWait, TypeOK, PcValues, flagVars,
                                    timeVars, histVars, NoTimeout
    <3> QED BY <1>1, <1>5, <2>2, <3>2 DEF LoopInv, NeverOversleeps
  <2>3. CASE wait = 0
    <3>1. until' = clock /\ clock' = clock
      BY <1>0, <2>1, <2>3 DEF NoTimeout, LoopWait, timeVars
    <3>2. TypeOK'
      BY <1>0, <1>1, <1>2, <1>5, <3>1 DEF LoopInv, LoopWait, TypeOK, PcValues, flagVars,
                                          timeVars, histVars
    <3> QED BY <1>0, <1>1, <1>5, <3>1, <3>2 DEF LoopInv, NeverOversleeps, NoTimeout
  <2>4. CASE /\ base'.event_count_active = 0
             /\ \E e \in Event : /\ IsTop(base', e)
                                 /\ base'.ev_timeout[e] > gettime
                                 /\ wait = base'.ev_timeout[e] - gettime
    <3>1. PICK e \in Event : /\ IsTop(base', e)
                             /\ base'.ev_timeout[e] > gettime
                             /\ wait = base'.ev_timeout[e] - gettime
      BY <2>4
    <3>2. wait \in Int /\ wait > 0
      BY <1>0, <1>3, <3>1
    <3>3. until' = clock + wait
      BY <2>1, <3>2 DEF NoTimeout
    <3>4. until' \in Nat /\ until' # NoTimeout /\ until' + skew = base'.ev_timeout[e]
      BY <1>0, <1>3, <3>1, <3>2, <3>3 DEF NoTimeout
    <3>5. \A f \in On(base', "TIMEOUT") : until' + skew <= base'.ev_timeout[f]
      BY <3>1, <3>4 DEF IsTop
    <3>6. TypeOK'
      BY <1>1, <1>2, <1>5, <3>4 DEF LoopInv, LoopWait, TypeOK, PcValues, flagVars,
                                    timeVars, histVars
    <3>7. skew' = skew
      BY DEF LoopWait, timeVars
    <3> QED BY <1>1, <1>5, <2>4, <3>4, <3>5, <3>6, <3>7 DEF LoopInv, NeverOversleeps
  <2>5. \/ wait = 0
        \/ base'.event_count_active = 0 /\ wait \in timeout_next(base', gettime)
    BY <2>1 DEF Waits
  <2>6. ASSUME wait \in timeout_next(base', gettime)
        PROVE  \/ On(base', "TIMEOUT") = {} /\ wait = NoTimeout
               \/ wait = 0
               \/ \E e \in Event : /\ IsTop(base', e)
                                   /\ base'.ev_timeout[e] > gettime
                                   /\ wait = base'.ev_timeout[e] - gettime
    <3>1. CASE On(base', "TIMEOUT") = {}
      BY <2>6, <3>1 DEF timeout_next
    <3>2. CASE On(base', "TIMEOUT") # {}
      <4>1. PICK e \in Event : IsTop(base', e) /\
                wait = IF base'.ev_timeout[e] <= gettime THEN 0
                                                         ELSE base'.ev_timeout[e] - gettime
        BY <2>6, <3>2 DEF timeout_next
      <4> QED BY <1>0, <1>3, <4>1
    <3> QED BY <3>1, <3>2
  <2> QED BY <2>2, <2>3, <2>4, <2>5, <2>6
<1> QED BY <1>4, <1>5 DEF LoopWait

(***************************************************************************)
(* A step that leaves the record alone and does not start a wait.          *)
(***************************************************************************)
LEMMA IdleStep ==
    ASSUME LoopInv, TypeOK', UNCHANGED base, pc' # "dispatch",
           pc' \in {"process", "callback"} => activeq' <= nactivequeues(base)
    PROVE  LoopInv'
BY DEF LoopInv, NeverOversleeps

LEMMA ControlInv ==
    LoopInv /\ (\/ LoopTerminated \/ LoopBroken \/ LoopSigcb
                \/ (\E f \in LoopFlags : LoopEnter(f))
                \/ DispatchWake \/ DispatchError \/ DispatchDone \/ NothingActive
                \/ FreeStart)
        => LoopInv'
<1> USE DEF TypeOK, PcValues, flagVars, loopVars, timeVars, histVars
<1> SUFFICES ASSUME LoopInv PROVE
        (\/ LoopTerminated \/ LoopBroken \/ LoopSigcb
         \/ (\E f \in LoopFlags : LoopEnter(f))
         \/ DispatchWake \/ DispatchError \/ DispatchDone \/ NothingActive
         \/ FreeStart) => LoopInv'
  OBVIOUS
<1>0. TypeOK
  BY DEF LoopInv
<1>1. ASSUME LoopTerminated PROVE LoopInv'
  BY <1>0, <1>1, IdleStep DEF LoopTerminated
<1>2. ASSUME LoopBroken PROVE LoopInv'
  BY <1>0, <1>2, IdleStep DEF LoopBroken
<1>3. ASSUME LoopSigcb PROVE LoopInv'
  BY <1>0, <1>3, IdleStep DEF LoopSigcb
<1>4. ASSUME NEW f \in LoopFlags, LoopEnter(f) PROVE LoopInv'
  BY <1>0, <1>4, IdleStep, LoopAssumption DEF LoopEnter
<1>5. ASSUME DispatchWake PROVE LoopInv'
  BY <1>0, <1>5, IdleStep DEF DispatchWake
<1>6. ASSUME DispatchError PROVE LoopInv'
  BY <1>0, <1>6, IdleStep DEF DispatchError
<1>7. ASSUME DispatchDone PROVE LoopInv'
  BY <1>0, <1>7, IdleStep DEF DispatchDone, gettime
<1>8. ASSUME NothingActive PROVE LoopInv'
  BY <1>0, <1>8, IdleStep DEF NothingActive
<1>9. ASSUME FreeStart PROVE LoopInv'
  BY <1>0, <1>9, IdleStep DEF FreeStart
<1> QED BY <1>1, <1>2, <1>3, <1>4, <1>5, <1>6, <1>7, <1>8, <1>9

LEMMA TimeInv == LoopInv /\ (GotSig \/ Tick \/ SetBack) => LoopInv'
<1> USE DEF TypeOK, PcValues, flagVars, loopVars, timeVars, histVars
<1> SUFFICES ASSUME LoopInv PROVE (GotSig \/ Tick \/ SetBack) => LoopInv'
  OBVIOUS
<1>1. ASSUME GotSig PROVE LoopInv'
  BY <1>1 DEF GotSig, LoopInv, NeverOversleeps
<1>2. ASSUME Tick PROVE LoopInv'
  BY <1>2 DEF Tick, LoopInv, NeverOversleeps
<1>3. ASSUME SetBack PROVE LoopInv'
  <2>1. base \in BaseType /\ \A e \in Event : base.ev_timeout[e] \in Int
    BY DEF LoopInv, BaseType
  <2> QED BY <1>3, <2>1 DEF SetBack, LoopInv, NeverOversleeps, On
<1> QED BY <1>1, <1>2, <1>3

(***************************************************************************)
(* The backend reports events and timers expire.                           *)
(***************************************************************************)
LEMMA ReportInv ==
    LoopInv /\ (\/ \E e \in Event, res \in SUBSET Io : ActivateIo(e, res)
                \/ \E e \in Event, n \in Ncalls : ActivateSignal(e, n)
                \/ \E e \in Event : TimeoutExpire(e))
        => LoopInv'
<1> SUFFICES ASSUME LoopInv PROVE
        (\/ \E e \in Event, res \in SUBSET Io : ActivateIo(e, res)
         \/ \E e \in Event, n \in Ncalls : ActivateSignal(e, n)
         \/ \E e \in Event : TimeoutExpire(e)) => LoopInv'
  OBVIOUS
<1>0. /\ BaseInv(base)
      /\ eonce \in [Once -> {"free", "user", "exit"}] /\ due \in [Event -> Int]
      /\ cancelled \subseteq Event /\ owed \subseteq Event
  BY DEF LoopInv, TypeOK
<1>1. ASSUME NEW e \in Event, NEW res \in SUBSET Io, ActivateIo(e, res)
      PROVE  LoopInv'
  <2>1. Keeps(base, base')
    BY <1>0, <1>1, ActiveKeeps DEF ActivateIo, Result
  <2> QED BY <1>0, <1>1, <2>1, OperationStep DEF ActivateIo, Keeps, histVars
<1>2. ASSUME NEW e \in Event, NEW n \in Ncalls, ActivateSignal(e, n)
      PROVE  LoopInv'
  <2> DEFINE b == IF "PERSIST" \in ev_events[e] THEN base ELSE event_del(base, e)
  <2>1. Keeps(base, b)
    BY <1>0, DelKeeps DEF Keeps
  <2>2. base' = event_active(b, e, {"SIGNAL"}, n)
    BY <1>2 DEF ActivateSignal
  <2> HIDE DEF b
  <2>3. Keeps(b, base')
    <3>1. BaseInv(b) /\ {"SIGNAL"} \in SUBSET Result /\ n \in Nat
      BY <2>1, LoopAssumption DEF Keeps, Result
    <3> QED BY <2>2, <3>1, ActiveKeeps
  <2> QED BY <1>0, <1>2, <2>1, <2>3, OperationStep DEF ActivateSignal, Keeps, histVars
<1>3. ASSUME NEW e \in Event, TimeoutExpire(e)
      PROVE  LoopInv'
  <2> DEFINE b == event_del(base, e)
  <2>1. Keeps(base, b)
    BY <1>0, DelKeeps
  <2>2. base' = event_active(b, e, {"TIMEOUT"}, 1)
    BY <1>3 DEF TimeoutExpire
  <2> HIDE DEF b
  <2>3. Keeps(b, base')
    <3>1. BaseInv(b) /\ {"TIMEOUT"} \in SUBSET Result /\ 1 \in Nat
      BY <2>1 DEF Keeps, Result
    <3> QED BY <2>2, <3>1, ActiveKeeps
  <2> QED BY <1>0, <1>3, <2>1, <2>3, OperationStep DEF TimeoutExpire, Keeps, histVars
<1> QED BY <1>1, <1>2, <1>3

-----------------------------------------------------------------------------
(***************************************************************************)
(* event_process_active.                                                   *)
(***************************************************************************)

\* The local variables of the loop and the histories have their types.
LEMMA ProcessStep ==
    ASSUME LoopInv, BaseInv(base'), nactivequeues(base') = nactivequeues(base),
           pc' \in {"process", "callback", "top", "idle"},
           activeq' \in Nat \ {0}, cur' \in Event,
           pc' \in {"process", "callback"} => activeq' <= nactivequeues(base),
           tnow' \in Int, owed' \subseteq Event,
           event_gotterm' \in BOOLEAN,
           eonce' \in [Once -> {"free", "user", "exit"}],
           UNCHANGED <<event_tv, event_break, event_gotsig, lflags, until, timeVars,
                       due, cancelled>>
    PROVE  LoopInv'
<1>1. base' \in BaseType
  BY DEF BaseInv
<1>2. TypeOK'
  BY <1>1 DEF LoopInv, TypeOK, PcValues, timeVars
<1> QED BY <1>2 DEF LoopInv, NeverOversleeps

LEMMA NcallsLemma ==
    ASSUME NEW b, BaseInv(b), NEW c \in BaseType,
           c.flags = b.flags, c.activequeues = b.activequeues, c.ev_pri = b.ev_pri,
           c.event_count = b.event_count, c.errx = b.errx,
           c.event_count_active = b.event_count_active
    PROVE  BaseInv(c) /\ nactivequeues(c) = nactivequeues(b)
BY SameBooks DEF nactivequeues

LEMMA HeadLemma ==
    ASSUME LoopInv, pc = "process", base.activequeues[activeq] # <<>>
    PROVE  LET e == Head(base.activequeues[activeq])
           IN  e \in Event /\ "ACTIVE" \in base.flags[e] /\ QueueOf(base, e) = activeq
<1> DEFINE q == base.activequeues[activeq]
<1>1. base \in BaseType /\ QueuesAgree(base) /\ activeq \in 1..nactivequeues(base)
  <2>1. base \in BaseType /\ QueuesAgree(base) /\ activeq \in Nat \ {0}
        /\ activeq <= nactivequeues(base)
    BY DEF LoopInv, BaseInv, TypeOK
  <2>2. nactivequeues(base) \in Nat
    BY <2>1, QueueBounds, EventAssumption
  <2> QED BY <2>1, <2>2
<1>2. q \in Seq(Event)
  BY <1>1, QueueBounds, EventAssumption
<1> HIDE DEF q
<1>3. q # <<>>
  BY DEF q
<1>4. Head(q) \in Event /\ Len(q) \in Nat \ {0} /\ Head(q) = q[1]
  BY <1>2, <1>3, HeadTailProperties, EmptySeq
<1>5. Holds(q, Head(q))
  BY <1>4 DEF Holds
<1> QED BY <1>1, <1>4, <1>5 DEF q, QueuesAgree

LEMMA TakenLemma ==
    ASSUME LoopInv, NEW e \in Event, "ACTIVE" \in base.flags[e]
    PROVE  /\ BaseInv(Taken(e)) /\ nactivequeues(Taken(e)) = nactivequeues(base)
           /\ Taken(e).ncalls \in Nat
<1> DEFINE b == IF "PERSIST" \in ev_events[e]
                THEN event_queue_remove(base, e, "ACTIVE")
                ELSE event_del(base, e)
           c == [b EXCEPT !.ncalls = b.ev_ncalls[e], !.ev_pncalls[e] = TRUE]
<1>1. BaseInv(base)
  BY DEF LoopInv
<1>2. Keeps(base, b)
  <2>1. Keeps(base, event_queue_remove(base, e, "ACTIVE"))
    BY <1>1, RemoveKeeps DEF Lists
  <2>2. Keeps(base, event_del(base, e))
    BY <1>1, DelKeeps
  <2> QED BY <2>1, <2>2
<1>3. Taken(e) = c
  BY DEF Taken
<1> HIDE DEF b
<1>4. BaseInv(b) /\ b \in BaseType
  BY <1>2 DEF Keeps, BaseInv
<1>5. /\ c \in BaseType /\ c.ncalls \in Nat
      /\ c.flags = b.flags /\ c.activequeues = b.activequeues /\ c.ev_pri = b.ev_pri
      /\ c.event_count = b.event_count /\ c.errx = b.errx
      /\ c.event_count_active = b.event_count_active
  BY <1>4 DEF BaseType
<1> HIDE DEF c
<1> QED BY <1>2, <1>3, <1>4, <1>5, NcallsLemma DEF Keeps

LEMMA InvokeLemma ==
    ASSUME NEW b, BaseInv(b), NEW e \in Event, NEW n \in Nat \ {0}, Invoke(b, e, n)
    PROVE  BaseInv(base') /\ nactivequeues(base') = nactivequeues(b)
<1>1. b \in BaseType
  BY DEF BaseInv
<1>2. n - 1 \in Nat
  OBVIOUS
<1>3. /\ base' \in BaseType
      /\ base'.flags = b.flags /\ base'.activequeues = b.activequeues
      /\ base'.ev_pri = b.ev_pri
      /\ base'.event_count = b.event_count /\ base'.errx = b.errx
      /\ base'.event_count_active = b.event_count_active
  BY <1>1, <1>2 DEF Invoke, BaseType
<1> QED BY <1>3, NcallsLemma

LEMMA SetNcalls ==
    ASSUME NEW b, BaseInv(b), NEW n \in Nat \cup {NoFrame},
           base' = [b EXCEPT !.ncalls = n]
    PROVE  BaseInv(base') /\ nactivequeues(base') = nactivequeues(b)
<1>1. b \in BaseType
  BY DEF BaseInv
<1>2. /\ base' \in BaseType
      /\ base'.flags = b.flags /\ base'.activequeues = b.activequeues
      /\ base'.ev_pri = b.ev_pri
      /\ base'.event_count = b.event_count /\ base'.errx = b.errx
      /\ base'.event_count_active = b.event_count_active
  BY <1>1 DEF BaseType
<1> QED BY <1>2, NcallsLemma

LEMMA ProcessInv ==
    LoopInv /\ (ProcessActive \/ TakeEvent \/ QueueDone \/ CallbackReturn) => LoopInv'
<1> SUFFICES ASSUME LoopInv PROVE
        (ProcessActive \/ TakeEvent \/ QueueDone \/ CallbackReturn) => LoopInv'
  OBVIOUS
<1>0. /\ BaseInv(base) /\ base \in BaseType /\ nactivequeues(base) \in Nat
      /\ eonce \in [Once -> {"free", "user", "exit"}] /\ owed \subseteq Event
      /\ cur \in Event /\ activeq \in Nat \ {0} /\ tnow \in Int
      /\ event_gotterm \in BOOLEAN /\ ev_signal \in Event
  BY EventAssumption, QueueBounds DEF LoopInv, TypeOK, BaseInv
<1>1. ASSUME ProcessActive PROVE LoopInv'
  <2>1. BaseInv(base') /\ nactivequeues(base') = nactivequeues(base)
    BY <1>0, <1>1, SetNcalls DEF ProcessActive
  <2>2. activeq' \in 1..nactivequeues(base)
    BY <1>1 DEF ProcessActive
  <2> QED BY <1>0, <1>1, <2>1, <2>2, ProcessStep DEF ProcessActive, flagVars, histVars
<1>2. ASSUME TakeEvent PROVE LoopInv'
  <2> DEFINE e == Head(base.activequeues[activeq])
  <2>1. e \in Event /\ "ACTIVE" \in base.flags[e]
    BY <1>2, HeadLemma DEF TakeEvent
  <2>2. activeq <= nactivequeues(base) /\ pc = "process"
    BY <1>2 DEF TakeEvent, LoopInv
  <2>3. /\ BaseInv(Taken(e)) /\ nactivequeues(Taken(e)) = nactivequeues(base)
        /\ Taken(e).ncalls \in Nat
    BY <2>1, TakenLemma
  <2>4. CASE Taken(e).ncalls = 0
    <3>1. base' = Taken(e) /\ UNCHANGED <<cur, pc, owed>>
      BY <1>2, <2>4 DEF TakeEvent
    <3> HIDE DEF e
    <3> QED BY <1>0, <1>2, <2>2, <2>3, <3>1, ProcessStep DEF TakeEvent, flagVars
  <2>5. CASE Taken(e).ncalls # 0
    <3>1. Invoke(Taken(e), e, Taken(e).ncalls)
      BY <1>2, <2>5 DEF TakeEvent
    <3> HIDE DEF e
    <3>2. BaseInv(base') /\ nactivequeues(base') = nactivequeues(base)
      BY <2>1, <2>3, <2>5, <3>1, InvokeLemma
    <3>3. cur' = e /\ pc' = "callback" /\ owed' \subseteq Event
      BY <1>0, <3>1 DEF Invoke
    <3> QED BY <1>0, <1>2, <2>1, <2>2, <3>2, <3>3, ProcessStep DEF TakeEvent, flagVars
  <2> QED BY <2>4, <2>5
<1>3. ASSUME ProcessReturn(base),
             event_gotterm' \in BOOLEAN,
             eonce' \in [Once -> {"free", "user", "exit"}],
             UNCHANGED <<event_tv, event_break, event_gotsig, lflags, until, tnow,
                         timeVars, due, cancelled, owed>>
      PROVE  LoopInv'
  <2>1. BaseInv(base') /\ nactivequeues(base') = nactivequeues(base)
    BY <1>0, <1>3, SetNcalls DEF ProcessReturn
  <2> QED BY <1>0, <1>3, <2>1, ProcessStep DEF ProcessReturn
<1>4. ASSUME QueueDone PROVE LoopInv'
  BY <1>0, <1>3, <1>4 DEF QueueDone, flagVars, histVars
<1>5. ASSUME CallbackReturn PROVE LoopInv'
  <2>1. event_gotterm' \in BOOLEAN
    BY <1>5, Zenon DEF CallbackReturn
  <2>2. eonce' \in [Once -> {"free", "user", "exit"}]
    BY <1>0, <1>5 DEF CallbackReturn
  <2>3. activeq <= nactivequeues(base)
    BY <1>5 DEF CallbackReturn, LoopInv
  <2>4. CASE event_gotsig \/ event_break
    BY <1>3, <1>5, <2>1, <2>2, <2>4 DEF CallbackReturn
  <2>5. CASE ~(event_gotsig \/ event_break) /\ base.ncalls > 0
    <3>1. Invoke(base, cur, base.ncalls) /\ UNCHANGED activeq
      BY <1>5, <2>5 DEF CallbackReturn
    <3>2. base.ncalls \in Nat \ {0}
      BY <1>0, <2>5 DEF BaseType, NoFrame
    <3>3. BaseInv(base') /\ nactivequeues(base') = nactivequeues(base)
      BY <1>0, <3>1, <3>2, InvokeLemma
    <3>4. cur' = cur /\ pc' = "callback" /\ owed' \subseteq Event
      BY <1>0, <3>1 DEF Invoke
    <3> QED BY <1>0, <1>5, <2>1, <2>2, <2>3, <3>1, <3>3, <3>4, ProcessStep
            DEF CallbackReturn
  <2>6. CASE ~(event_gotsig \/ event_break) /\ ~(base.ncalls > 0)
    <3>1. pc' = "process" /\ UNCHANGED <<base, cur, owed, activeq>>
      BY <1>5, <2>6 DEF CallbackReturn
    <3> QED BY <1>0, <1>5, <2>1, <2>2, <2>3, <3>1, ProcessStep DEF CallbackReturn
  <2> QED BY <2>4, <2>5, <2>6
<1> QED BY <1>1, <1>2, <1>4, <1>5

-----------------------------------------------------------------------------
LEMMA FreeInv == LoopInv /\ ((\E e \in Event : FreeDelete(e)) \/ FreeDone) => LoopInv'
<1> SUFFICES ASSUME LoopInv PROVE ((\E e \in Event : FreeDelete(e)) \/ FreeDone) => LoopInv'
  OBVIOUS
<1>0. /\ BaseInv(base) /\ TypeOK /\ ev_signal \in Event
      /\ eonce \in [Once -> {"free", "user", "exit"}] /\ due \in [Event -> Int]
      /\ cancelled \subseteq Event /\ owed \subseteq Event
  BY EventAssumption DEF LoopInv, TypeOK
<1>1. ASSUME NEW e \in Event, FreeDelete(e) PROVE LoopInv'
  <2>1. Keeps(base, base')
    BY <1>0, <1>1, DelKeeps DEF FreeDelete
  <2> QED BY <1>0, <1>1, <2>1, OperationStep DEF FreeDelete, Keeps, histVars
<1>2. ASSUME FreeDone PROVE LoopInv'
  <2> DEFINE b == event_del(base, ev_signal)
             c == [b EXCEPT !.ev_signal_added = FALSE]
  <2>1. Keeps(base, b)
    BY <1>0, DelKeeps
  <2>2. base' = c \/ base' = base
    BY <1>2 DEF FreeDone
  <2> HIDE DEF b
  <2>3. BaseInv(b) /\ b \in BaseType
    BY <2>1 DEF Keeps, BaseInv
  <2>4. /\ c \in BaseType
        /\ c.flags = b.flags /\ c.activequeues = b.activequeues /\ c.ev_pri = b.ev_pri
        /\ c.event_count = b.event_count /\ c.errx = b.errx
        /\ c.event_count_active = b.event_count_active
    BY <2>3 DEF BaseType
  <2> HIDE DEF c
  <2>5. BaseInv(base')
    BY <1>0, <2>2, <2>3, <2>4, SameBooks
  <2>6. base' \in BaseType /\ pc' = "freed"
    BY <1>2, <2>5 DEF BaseInv, FreeDone
  <2>7. TypeOK'
    BY <1>0, <1>2, <2>6 DEF FreeDone, TypeOK, PcValues, flagVars, loopVars, timeVars, histVars
  <2> QED BY <2>5, <2>6, <2>7 DEF LoopInv, NeverOversleeps
<1> QED BY <1>1, <1>2

LEMMA NextInv == LoopInv /\ [Next]_vars => LoopInv'
<1>1. LoopInv /\ UNCHANGED vars => LoopInv'
  BY DEF vars, flagVars, loopVars, timeVars, histVars, LoopInv, TypeOK, NeverOversleeps
<1>2. LoopInv /\ Loop => LoopInv'
  BY ControlInv, WaitInv, ReportInv, ProcessInv DEF Loop
<1>3. LoopInv /\ Free => LoopInv'
  BY ControlInv, FreeInv DEF Free
<1> QED BY <1>1, <1>2, <1>3, ApiInv, TimeInv, ControlInv DEF Next

(***************************************************************************)
(* Every reachable state satisfies the inductive invariant.                *)
(***************************************************************************)
THEOREM LoopInvariant == Spec => []LoopInv
BY InitInv, NextInv, PTL DEF Spec

(***************************************************************************)
(* The state always has its type; in particular the queue that             *)
(* event_process_active works on and the event whose callback runs exist.  *)
(***************************************************************************)
THEOREM TypeCorrect == Spec => []TypeOK
<1>1. LoopInv => TypeOK
  BY DEF LoopInv
<1> QED BY LoopInvariant, <1>1, PTL

(***************************************************************************)
(* event_count and event_count_active are exact (event_queue_insert and    *)
(* event_queue_remove keep them through every path of the loop): the loop  *)
(* ends exactly when nothing is registered, sleeps only if none is active. *)
(***************************************************************************)
THEOREM CountersAreExact == Spec => []CountersExact
<1>1. LoopInv => CountersExact
  BY DEF LoopInv, BaseInv, CountersExact
<1> QED BY LoopInvariant, <1>1, PTL

(***************************************************************************)
(* The active queues agree with the flags: no event is linked twice, in a  *)
(* foreign queue, or left behind by TAILQ_REMOVE.                          *)
(***************************************************************************)
THEOREM ActiveQueuesAreExact == Spec => []ActiveQueuesExact
<1>1. LoopInv => ActiveQueuesExact
  BY DEF LoopInv, BaseInv, ActiveQueuesExact
<1> QED BY LoopInvariant, <1>1, PTL

(***************************************************************************)
(* The event_errx calls of event_queue_insert and event_queue_remove are   *)
(* unreachable.                                                            *)
(***************************************************************************)
THEOREM NoFatalErrorEver == Spec => []NoFatalError
<1>1. LoopInv => NoFatalError
  BY DEF LoopInv, BaseInv, NoFatalError
<1> QED BY LoopInvariant, <1>1, PTL

(***************************************************************************)
(* The wait computed by event_base_loop and timeout_next ends before the   *)
(* earliest timer, and is none when an event is already active, even if    *)
(* the clock of the machine is set back meanwhile.                         *)
(***************************************************************************)
THEOREM LoopNeverOversleeps == Spec => []NeverOversleeps
<1>1. LoopInv => NeverOversleeps
  BY DEF LoopInv
<1> QED BY LoopInvariant, <1>1, PTL

(***************************************************************************)
(* event_process_active starts on the most urgent queue that has an event. *)
(***************************************************************************)
THEOREM UrgentFirst == Spec => UrgentQueueFirst
<1>1. ASSUME LoopInv, [Next]_vars, pc = "timeouts" /\ pc' = "process",
             NEW e \in On(base, "ACTIVE")
      PROVE  base.ev_pri[e] + 1 >= activeq'
  <2>1. ProcessActive
    BY <1>1 DEF Next, Api, Loop, Free, vars, EventAdd, EventDel, EventActive,
        EventPrioritySet, EventBasePriorityInit, EventBaseOnce, EventBaseLoopbreak,
        GotSig, LoopEnter, LoopTerminated, LoopBroken, LoopSigcb, LoopWait,
        DispatchWake, DispatchError, ActivateIo, ActivateSignal, DispatchDone,
        TimeoutExpire, NothingActive, TakeEvent, QueueDone, CallbackReturn,
        FreeStart, FreeDelete, FreeDone, Tick, SetBack, InUserCode
  <2>2. /\ base \in BaseType /\ QueuesAgree(base) /\ e \in Event
        /\ "ACTIVE" \in base.flags[e] /\ base.ev_pri[e] \in Nat
    BY <1>1 DEF LoopInv, BaseInv, On, BaseType
  <2> DEFINE k == QueueOf(base, e)
  <2>3. k \in 1..nactivequeues(base) /\ Holds(base.activequeues[k], e)
    BY <2>2, QueueBounds DEF QueuesAgree
  <2>4. base.activequeues[k] # <<>>
    BY <2>3, EmptySeq DEF Holds
  <2>5. activeq' \in Nat /\ ~(k \in 1..(activeq' - 1))
    BY <2>1, <2>4 DEF ProcessActive, FirstQueue
  <2> QED BY <2>2, <2>3, <2>5 DEF QueueOf
<1>2. LoopInv /\ [Next]_vars =>
        (pc = "timeouts" /\ pc' = "process" =>
            \A e \in On(base, "ACTIVE") : base.ev_pri[e] + 1 >= activeq')
  BY <1>1
<1> QED BY LoopInvariant, <1>2, PTL DEF Spec, UrgentQueueFirst
=============================================================================
