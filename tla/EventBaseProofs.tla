--------------------------- MODULE EventBaseProofs ---------------------------
(***************************************************************************)
(* What the operations of EventBase preserve, for any number of events and *)
(* priorities: lemmas on the record, which EventLoopProofs applies to the  *)
(* actions of the loop.                                                    *)
(***************************************************************************)
EXTENDS EventBase, FiniteSetTheorems, SequenceTheorems, TLAPS

(***************************************************************************)
(* Unlinking an event from a queue that holds it once removes it, and      *)
(* nothing else.                                                           *)
(***************************************************************************)
LEMMA TailqRemoveLemma ==
    ASSUME NEW q \in Seq(Event), NEW e \in Event, NoDuplicates(q), Holds(q, e)
    PROVE  /\ TailqRemove(q, e) \in Seq(Event)
           /\ NoDuplicates(TailqRemove(q, e))
           /\ \A f \in Event : Holds(TailqRemove(q, e), f) <=> Holds(q, f) /\ f # e
<1> DEFINE i == CHOOSE j \in 1..Len(q) : q[j] = e
           n == Len(q)
           t == [j \in 1..(n - 1) |-> IF j < i THEN q[j] ELSE q[j + 1]]
<1>1. n \in Nat /\ \A j \in 1..n : q[j] \in Event
  BY LenProperties, ElementOfSeq
<1>2. i \in 1..n /\ q[i] = e
  BY DEF Holds
<1>3. TailqRemove(q, e) = t
  BY DEF TailqRemove
<1> HIDE DEF i, n
<1>4. \A j \in 1..(n - 1) : (IF j < i THEN q[j] ELSE q[j + 1]) \in Event
  BY <1>1, <1>2
<1>5. t \in Seq(Event) /\ Len(t) = n - 1
  <2>1. n - 1 \in Nat
    BY <1>1, <1>2
  <2>2. t \in [1..(n - 1) -> Event]
    BY <1>4
  <2> HIDE DEF t
  <2> QED BY <2>1, <2>2, SeqDef, LenProperties
<1>6. \A j \in 1..(n - 1) : t[j] = IF j < i THEN q[j] ELSE q[j + 1]
  OBVIOUS
<1> HIDE DEF t
<1>7. \A j, k \in 1..n : q[j] = q[k] => j = k
  BY DEF NoDuplicates, n
<1>8. NoDuplicates(t)
  BY <1>1, <1>2, <1>5, <1>6, <1>7 DEF NoDuplicates
<1>9. ASSUME NEW f \in Event
      PROVE  Holds(t, f) <=> Holds(q, f) /\ f # e
  <2>1. ASSUME NEW j \in 1..(n - 1), t[j] = f
        PROVE  (\E k \in 1..n : q[k] = f) /\ f # e
    <3>1. CASE j < i
      BY <1>1, <1>2, <1>6, <1>7, <2>1, <3>1
    <3>2. CASE ~(j < i)
      <4>1. j + 1 \in 1..n /\ q[j + 1] = f
        BY <1>1, <1>2, <1>6, <2>1, <3>2
      <4> QED BY <1>1, <1>2, <1>7, <3>2, <4>1
    <3> QED BY <3>1, <3>2
  <2>2. ASSUME NEW k \in 1..n, q[k] = f, f # e
        PROVE  \E j \in 1..(n - 1) : t[j] = f
    <3>1. CASE k < i
      BY <1>1, <1>2, <1>6, <2>2, <3>1
    <3>2. CASE ~(k < i)
      <4>1. k - 1 \in 1..(n - 1) /\ ~(k - 1 < i) /\ (k - 1) + 1 = k
        BY <1>1, <1>2, <2>2, <3>2
      <4> QED BY <1>6, <2>2, <4>1
    <3> QED BY <3>1, <3>2
  <2> QED BY <1>5, <2>1, <2>2 DEF Holds, n
<1> QED BY <1>3, <1>5, <1>8, <1>9

-----------------------------------------------------------------------------
(***************************************************************************)
(* The two queue primitives.                                               *)
(***************************************************************************)
BaseInv(b) ==
    /\ b \in BaseType
    /\ CountersAgree(b)
    /\ QueuesAgree(b)
    /\ ~b.errx

LEMMA FiniteMemberships ==
    ASSUME NEW b, b \in BaseType
    PROVE  IsFiniteSet(Memberships(b)) /\ IsFiniteSet(On(b, "ACTIVE"))
<1>1. IsFiniteSet(Event \ {ev_signal})
  BY FS_Difference, EventAssumption
<1>2. IsFiniteSet(Lists)
  <2>1. Lists = {"TIMEOUT"} \cup {"INSERTED"} \cup {"SIGNAL"} \cup {"ACTIVE"}
    BY DEF Lists
  <2>2. /\ IsFiniteSet({"TIMEOUT"}) /\ IsFiniteSet({"INSERTED"})
        /\ IsFiniteSet({"SIGNAL"}) /\ IsFiniteSet({"ACTIVE"})
    BY FS_Singleton
  <2> QED BY <2>1, <2>2, FS_Union
<1>3. IsFiniteSet((Event \ {ev_signal}) \X Lists)
  BY <1>1, <1>2, FS_Product
<1> QED
  BY <1>3, FS_Subset, EventAssumption DEF Memberships, On

LEMMA PairSetsEqual ==
    ASSUME NEW X, NEW Y, NEW M, NEW N, M \subseteq X \X Y, N \subseteq X \X Y,
           \A f \in X, p \in Y : <<f, p>> \in M <=> <<f, p>> \in N
    PROVE  M = N
<1>1. ASSUME NEW m \in X \X Y
      PROVE  m \in M <=> m \in N
  <2>1. PICK f \in X, p \in Y : m = <<f, p>>
    OBVIOUS
  <2> QED BY <2>1
<1> QED BY <1>1

LEMMA MembershipMeaning ==
    ASSUME NEW b
    PROVE  /\ Memberships(b) \subseteq (Event \ {ev_signal}) \X Lists
           /\ \A f \in Event \ {ev_signal}, p \in Lists :
                 <<f, p>> \in Memberships(b) <=> p \in b.flags[f]
<1>1. Memberships(b) \subseteq (Event \ {ev_signal}) \X Lists
  BY DEF Memberships
<1>2. ASSUME NEW f \in Event \ {ev_signal}, NEW p \in Lists
      PROVE  <<f, p>> \in Memberships(b) <=> p \in b.flags[f]
  <2>1. <<f, p>> \in (Event \ {ev_signal}) \X Lists
    OBVIOUS
  <2>2. <<f, p>>[1] = f /\ <<f, p>>[2] = p
    OBVIOUS
  <2> QED BY <2>1, <2>2 DEF Memberships
<1> QED BY <1>1, <1>2

(***************************************************************************)
(* The fields the two primitives change.                                   *)
(***************************************************************************)
LEMMA RemoveFields ==
    ASSUME NEW b \in BaseType, NEW e \in Event, NEW q \in Lists, q \in b.flags[e]
    PROVE  LET c == event_queue_remove(b, e, q)
           IN  /\ c.flags = [b.flags EXCEPT ![e] = @ \ {q}]
               /\ c.event_count = IF e = ev_signal THEN b.event_count
                                                   ELSE b.event_count - 1
               /\ c.event_count_active = IF q = "ACTIVE" THEN b.event_count_active - 1
                                                         ELSE b.event_count_active
               /\ c.activequeues = IF q = "ACTIVE" THEN Unlinked(b, e)
                                                   ELSE b.activequeues
               /\ c.ev_timeout = b.ev_timeout /\ c.ev_res = b.ev_res
               /\ c.ev_ncalls = b.ev_ncalls /\ c.ev_pncalls = b.ev_pncalls
               /\ c.ev_pri = b.ev_pri /\ c.ev_signal_added = b.ev_signal_added
               /\ c.ncalls = b.ncalls /\ c.errx = b.errx /\ c.wild = b.wild
BY DEF BaseType, event_queue_remove

LEMMA InsertFields ==
    ASSUME NEW b \in BaseType, NEW e \in Event, NEW q \in Lists, q \notin b.flags[e]
    PROVE  LET c == event_queue_insert(b, e, q)
           IN  /\ c.flags = [b.flags EXCEPT ![e] = @ \cup {q}]
               /\ c.event_count = IF e = ev_signal THEN b.event_count
                                                   ELSE b.event_count + 1
               /\ c.event_count_active = IF q = "ACTIVE" THEN b.event_count_active + 1
                                                         ELSE b.event_count_active
               /\ c.activequeues = IF q = "ACTIVE" THEN Linked(b, e)
                                                   ELSE b.activequeues
               /\ c.ev_timeout = b.ev_timeout /\ c.ev_res = b.ev_res
               /\ c.ev_ncalls = b.ev_ncalls /\ c.ev_pncalls = b.ev_pncalls
               /\ c.ev_pri = b.ev_pri /\ c.ev_signal_added = b.ev_signal_added
               /\ c.ncalls = b.ncalls /\ c.errx = b.errx /\ c.wild = b.wild
BY DEF BaseType, event_queue_insert

(***************************************************************************)
(* A membership more or less on one list changes the counts by one.        *)
(***************************************************************************)
LEMMA RemoveCounts ==
    ASSUME NEW b \in BaseType, CountersAgree(b), NEW c \in BaseType,
           NEW e \in Event, NEW q \in Lists, q \in b.flags[e],
           c.flags = [b.flags EXCEPT ![e] = @ \ {q}],
           c.event_count = IF e = ev_signal THEN b.event_count ELSE b.event_count - 1,
           c.event_count_active = IF q = "ACTIVE" THEN b.event_count_active - 1
                                                  ELSE b.event_count_active
    PROVE  CountersAgree(c)
<1> USE DEF BaseType
<1>1. c.event_count = Cardinality(Memberships(c))
  <2>1. CASE e = ev_signal
    <3>1. Memberships(c) = Memberships(b)
      BY <2>1 DEF Memberships
    <3> QED BY <2>1, <3>1 DEF CountersAgree
  <2>2. CASE e # ev_signal
    <3>1. Memberships(c) = Memberships(b) \ {<<e, q>>}
      <4>1. ASSUME NEW f \in Event \ {ev_signal}, NEW p \in Lists
            PROVE  p \in c.flags[f] <=> p \in b.flags[f] /\ (f # e \/ p # q)
        <5>1. CASE f = e
          BY <5>1
        <5>2. CASE f # e
          BY <5>2
        <5> QED BY <5>1, <5>2
      <4>2. ASSUME NEW f \in Event \ {ev_signal}, NEW p \in Lists
            PROVE  <<f, p>> \in Memberships(c) <=>
                       <<f, p>> \in Memberships(b) \ {<<e, q>>}
        BY <4>1, MembershipMeaning
      <4>3. /\ Memberships(c) \subseteq (Event \ {ev_signal}) \X Lists
            /\ Memberships(b) \ {<<e, q>>} \subseteq (Event \ {ev_signal}) \X Lists
        BY MembershipMeaning
      <4> QED BY <4>2, <4>3, PairSetsEqual
    <3>2. <<e, q>> \in Memberships(b)
      BY <2>2 DEF Memberships
    <3>3. Cardinality(Memberships(b) \ {<<e, q>>}) = Cardinality(Memberships(b)) - 1
      BY <3>2, FiniteMemberships, FS_RemoveElement
    <3> QED BY <2>2, <3>1, <3>3 DEF CountersAgree
  <2> QED BY <2>1, <2>2
<1>2. c.event_count_active = Cardinality(On(c, "ACTIVE"))
  <2>1. CASE q = "ACTIVE"
    <3>1. On(c, "ACTIVE") = On(b, "ACTIVE") \ {e} /\ e \in On(b, "ACTIVE")
      BY <2>1 DEF On
    <3>2. Cardinality(On(b, "ACTIVE") \ {e}) = Cardinality(On(b, "ACTIVE")) - 1
      BY <3>1, FiniteMemberships, FS_RemoveElement
    <3> QED BY <2>1, <3>1, <3>2 DEF CountersAgree
  <2>2. CASE q # "ACTIVE"
    <3>1. On(c, "ACTIVE") = On(b, "ACTIVE")
      BY <2>2 DEF On
    <3> QED BY <2>2, <3>1 DEF CountersAgree
  <2> QED BY <2>1, <2>2
<1> QED BY <1>1, <1>2 DEF CountersAgree

LEMMA InsertCounts ==
    ASSUME NEW b \in BaseType, CountersAgree(b), NEW c \in BaseType,
           NEW e \in Event, NEW q \in Lists, q \notin b.flags[e],
           c.flags = [b.flags EXCEPT ![e] = @ \cup {q}],
           c.event_count = IF e = ev_signal THEN b.event_count ELSE b.event_count + 1,
           c.event_count_active = IF q = "ACTIVE" THEN b.event_count_active + 1
                                                  ELSE b.event_count_active
    PROVE  CountersAgree(c)
<1> USE DEF BaseType
<1>1. c.event_count = Cardinality(Memberships(c))
  <2>1. CASE e = ev_signal
    <3>1. Memberships(c) = Memberships(b)
      BY <2>1 DEF Memberships
    <3> QED BY <2>1, <3>1 DEF CountersAgree
  <2>2. CASE e # ev_signal
    <3>1. Memberships(c) = Memberships(b) \cup {<<e, q>>}
      <4>1. ASSUME NEW f \in Event \ {ev_signal}, NEW p \in Lists
            PROVE  p \in c.flags[f] <=> p \in b.flags[f] \/ (f = e /\ p = q)
        <5>1. CASE f = e
          BY <5>1
        <5>2. CASE f # e
          BY <5>2
        <5> QED BY <5>1, <5>2
      <4>2. ASSUME NEW f \in Event \ {ev_signal}, NEW p \in Lists
            PROVE  <<f, p>> \in Memberships(c) <=>
                       <<f, p>> \in Memberships(b) \cup {<<e, q>>}
        BY <4>1, MembershipMeaning
      <4>3. /\ Memberships(c) \subseteq (Event \ {ev_signal}) \X Lists
            /\ Memberships(b) \cup {<<e, q>>} \subseteq (Event \ {ev_signal}) \X Lists
        BY <2>2, MembershipMeaning
      <4> QED BY <4>2, <4>3, PairSetsEqual
    <3>2. <<e, q>> \notin Memberships(b)
      BY DEF Memberships
    <3>3. Cardinality(Memberships(b) \cup {<<e, q>>}) = Cardinality(Memberships(b)) + 1
      BY <3>2, FiniteMemberships, FS_AddElement
    <3> QED BY <2>2, <3>1, <3>3 DEF CountersAgree
  <2> QED BY <2>1, <2>2
<1>2. c.event_count_active = Cardinality(On(c, "ACTIVE"))
  <2>1. CASE q = "ACTIVE"
    <3>1. On(c, "ACTIVE") = On(b, "ACTIVE") \cup {e} /\ e \notin On(b, "ACTIVE")
      BY <2>1 DEF On
    <3>2. Cardinality(On(b, "ACTIVE") \cup {e}) = Cardinality(On(b, "ACTIVE")) + 1
      BY <3>1, FiniteMemberships, FS_AddElement
    <3> QED BY <2>1, <3>1, <3>2 DEF CountersAgree
  <2>2. CASE q # "ACTIVE"
    <3>1. On(c, "ACTIVE") = On(b, "ACTIVE")
      BY <2>2 DEF On
    <3> QED BY <2>2, <3>1 DEF CountersAgree
  <2> QED BY <2>1, <2>2
<1> QED BY <1>1, <1>2 DEF CountersAgree

(***************************************************************************)
(* Linking and unlinking keep the queues in agreement with the flags.      *)
(***************************************************************************)
LEMMA QueueBounds ==
    ASSUME NEW b \in BaseType, QueuesAgree(b), NEW e \in Event
    PROVE  /\ nactivequeues(b) \in Nat
           /\ QueueOf(b, e) \in 1..nactivequeues(b)
           /\ \A i \in 1..nactivequeues(b) : b.activequeues[i] \in Seq(Event)
<1>1. b.activequeues \in Seq(Seq(Event)) /\ b.ev_pri[e] \in Nat
  BY DEF BaseType
<1>2. nactivequeues(b) \in Nat
  BY <1>1, LenProperties DEF nactivequeues
<1>3. \A i \in 1..nactivequeues(b) : b.activequeues[i] \in Seq(Event)
  BY <1>1, ElementOfSeq DEF nactivequeues
<1> QED BY <1>1, <1>2, <1>3 DEF QueuesAgree, QueueOf

LEMMA UnlinkedLemma ==
    ASSUME NEW b \in BaseType, QueuesAgree(b), NEW e \in Event, "ACTIVE" \in b.flags[e]
    PROVE  LET u == Unlinked(b, e)
           IN  /\ u \in Seq(Seq(Event)) /\ Len(u) = nactivequeues(b)
               /\ \A i \in 1..nactivequeues(b) :
                     /\ NoDuplicates(u[i])
                     /\ \A f \in Event :
                           Holds(u[i], f) <=> Holds(b.activequeues[i], f) /\ f # e
<1> DEFINE k == QueueOf(b, e)
           q == b.activequeues[k]
           u == Unlinked(b, e)
<1>1. /\ k \in 1..nactivequeues(b)
      /\ \A i \in 1..nactivequeues(b) : b.activequeues[i] \in Seq(Event)
      /\ b.activequeues \in Seq(Seq(Event))
  BY QueueBounds DEF BaseType
<1>2. NoDuplicates(q) /\ Holds(q, e)
  BY <1>1 DEF QueuesAgree
<1>3. /\ TailqRemove(q, e) \in Seq(Event)
      /\ NoDuplicates(TailqRemove(q, e))
      /\ \A f \in Event : Holds(TailqRemove(q, e), f) <=> Holds(q, f) /\ f # e
  BY <1>1, <1>2, TailqRemoveLemma
<1>4. /\ u \in Seq(Seq(Event)) /\ Len(u) = nactivequeues(b)
      /\ \A i \in 1..nactivequeues(b) :
            u[i] = IF i = k THEN TailqRemove(q, e) ELSE b.activequeues[i]
  <2>1. u = [b.activequeues EXCEPT ![k] = TailqRemove(q, e)]
    BY DEF Unlinked
  <2> HIDE DEF u, k
  <2> QED BY <1>1, <1>3, <2>1, ExceptSeq DEF nactivequeues
<1>5. ASSUME NEW i \in 1..nactivequeues(b), i # k
      PROVE  \A f \in Event : Holds(b.activequeues[i], f) => f # e
  BY <1>5 DEF QueuesAgree
<1>6. \A i \in 1..nactivequeues(b) : NoDuplicates(b.activequeues[i])
  BY DEF QueuesAgree
<1> HIDE DEF u, k
<1> QED BY <1>3, <1>4, <1>5, <1>6 DEF u

LEMMA LinkedLemma ==
    ASSUME NEW b \in BaseType, QueuesAgree(b), NEW e \in Event, "ACTIVE" \notin b.flags[e]
    PROVE  LET u == Linked(b, e)
           IN  /\ u \in Seq(Seq(Event)) /\ Len(u) = nactivequeues(b)
               /\ \A i \in 1..nactivequeues(b) :
                     /\ NoDuplicates(u[i])
                     /\ \A f \in Event :
                           Holds(u[i], f) <=>
                               Holds(b.activequeues[i], f) \/ (i = QueueOf(b, e) /\ f = e)
<1> DEFINE k == QueueOf(b, e)
           q == b.activequeues[k]
           n == Len(q)
           t == Append(q, e)
           u == Linked(b, e)
<1>1. /\ k \in 1..nactivequeues(b)
      /\ \A i \in 1..nactivequeues(b) : b.activequeues[i] \in Seq(Event)
      /\ b.activequeues \in Seq(Seq(Event))
  BY QueueBounds DEF BaseType
<1>2. NoDuplicates(q) /\ ~Holds(q, e)
  BY <1>1 DEF QueuesAgree
<1>3. /\ t \in Seq(Event) /\ n \in Nat /\ Len(t) = n + 1
      /\ \A j \in 1..n : t[j] = q[j]
      /\ t[n + 1] = e
  <2> HIDE DEF q
  <2>1. q \in Seq(Event)
    BY <1>1 DEF q
  <2> QED BY <2>1, AppendProperties, LenProperties
<1>4. NoDuplicates(t)
  <2> HIDE DEF t, n
  <2> SUFFICES ASSUME NEW j \in 1..(n + 1), NEW l \in 1..(n + 1), t[j] = t[l]
               PROVE  j = l
    BY <1>3 DEF NoDuplicates
  <2>1. \A m \in 1..n : t[m] # e
    BY <1>2, <1>3 DEF Holds, n
  <2>2. \A m, o \in 1..n : t[m] = t[o] => m = o
    BY <1>2, <1>3 DEF NoDuplicates, n
  <2>3. (j \in 1..n \/ j = n + 1) /\ (l \in 1..n \/ l = n + 1)
    BY <1>3
  <2> QED BY <1>3, <2>1, <2>2, <2>3
<1>5. \A f \in Event : Holds(t, f) <=> Holds(q, f) \/ f = e
  <2> HIDE DEF t, n
  <2> TAKE f \in Event
  <2>1. \A m \in 1..(n + 1) : m \in 1..n \/ m = n + 1
    BY <1>3
  <2>2. \A m \in 1..n : m \in 1..(n + 1)
    BY <1>3
  <2>3. n + 1 \in 1..(n + 1)
    BY <1>3
  <2> QED BY <1>3, <2>1, <2>2, <2>3 DEF Holds, n
<1>6. /\ u \in Seq(Seq(Event)) /\ Len(u) = nactivequeues(b)
      /\ \A i \in 1..nactivequeues(b) :
            u[i] = IF i = k THEN t ELSE b.activequeues[i]
  <2>1. u = [b.activequeues EXCEPT ![k] = t]
    BY DEF Linked
  <2> HIDE DEF u, k, t
  <2> QED BY <1>1, <1>3, <2>1, ExceptSeq DEF nactivequeues
<1>7. \A i \in 1..nactivequeues(b) : NoDuplicates(b.activequeues[i])
  BY DEF QueuesAgree
<1> HIDE DEF u, k, t
<1> QED BY <1>4, <1>5, <1>6, <1>7 DEF u, k

-----------------------------------------------------------------------------
(***************************************************************************)
(* The primitives preserve the invariant of the record.                    *)
(***************************************************************************)
LEMMA UpdateType ==
    ASSUME NEW b \in BaseType, NEW F \in [Event -> SUBSET Lists], NEW N \in Int,
           NEW M \in Int, NEW A \in Seq(Seq(Event))
    PROVE  [b EXCEPT !.flags = F, !.event_count = N, !.event_count_active = M,
                     !.activequeues = A] \in BaseType
BY DEF BaseType

LEMMA RemoveLemma ==
    ASSUME NEW b, BaseInv(b), NEW e \in Event, NEW q \in Lists, q \in b.flags[e]
    PROVE  BaseInv(event_queue_remove(b, e, q))
<1> DEFINE c == event_queue_remove(b, e, q)
<1>1. b \in BaseType /\ CountersAgree(b) /\ QueuesAgree(b) /\ ~b.errx
  BY DEF BaseInv
<1>2. /\ c.flags = [b.flags EXCEPT ![e] = @ \ {q}]
      /\ c.event_count = IF e = ev_signal THEN b.event_count ELSE b.event_count - 1
      /\ c.event_count_active = IF q = "ACTIVE" THEN b.event_count_active - 1
                                                ELSE b.event_count_active
      /\ c.activequeues = IF q = "ACTIVE" THEN Unlinked(b, e) ELSE b.activequeues
      /\ c.ev_pri = b.ev_pri /\ c.errx = b.errx
  BY <1>1, RemoveFields
<1>3. q = "ACTIVE" => Unlinked(b, e) \in Seq(Seq(Event))
  BY <1>1, UnlinkedLemma
<1>4. c \in BaseType
  <2> DEFINE F == [b.flags EXCEPT ![e] = @ \ {q}]
             N == IF e = ev_signal THEN b.event_count ELSE b.event_count - 1
             M == IF q = "ACTIVE" THEN b.event_count_active - 1
                                  ELSE b.event_count_active
             A == IF q = "ACTIVE" THEN Unlinked(b, e) ELSE b.activequeues
  <2>1. c = [b EXCEPT !.flags = F, !.event_count = N, !.event_count_active = M,
                      !.activequeues = A]
    BY <1>1 DEF BaseType, event_queue_remove
  <2>2. F \in [Event -> SUBSET Lists] /\ N \in Int /\ M \in Int
    BY <1>1 DEF BaseType
  <2>3. A \in Seq(Seq(Event))
    BY <1>1, <1>3 DEF BaseType
  <2> HIDE DEF F, N, M, A, c
  <2> QED BY <1>1, <2>1, <2>2, <2>3, UpdateType
<1> HIDE DEF c
<1>5. CountersAgree(c)
  BY <1>1, <1>2, <1>4, RemoveCounts
<1>6. QueuesAgree(c)
  <2>1. CASE q = "ACTIVE"
    <3>1. /\ nactivequeues(c) = nactivequeues(b)
          /\ \A i \in 1..nactivequeues(b) :
                /\ NoDuplicates(c.activequeues[i])
                /\ \A f \in Event :
                      Holds(c.activequeues[i], f) <=> Holds(b.activequeues[i], f) /\ f # e
      BY <1>1, <1>2, <2>1, UnlinkedLemma DEF nactivequeues
    <3>2. \A f \in Event : "ACTIVE" \in c.flags[f] <=> "ACTIVE" \in b.flags[f] /\ f # e
      BY <1>1, <1>2, <2>1 DEF BaseType
    <3>3. \A f \in Event : QueueOf(c, f) = QueueOf(b, f)
      BY <1>2 DEF QueueOf
    <3> QED BY <1>1, <1>2, <3>1, <3>2, <3>3 DEF QueuesAgree
  <2>2. CASE q # "ACTIVE"
    <3>1. \A f \in Event : "ACTIVE" \in c.flags[f] <=> "ACTIVE" \in b.flags[f]
      BY <1>1, <1>2, <2>2 DEF BaseType
    <3> QED BY <1>1, <1>2, <2>2, <3>1 DEF QueuesAgree, nactivequeues, QueueOf
  <2> QED BY <2>1, <2>2
<1> QED BY <1>1, <1>2, <1>4, <1>5, <1>6 DEF BaseInv, c

LEMMA InsertLemma ==
    ASSUME NEW b, BaseInv(b), NEW e \in Event, NEW q \in Lists, q \notin b.flags[e]
    PROVE  BaseInv(event_queue_insert(b, e, q))
<1> DEFINE c == event_queue_insert(b, e, q)
<1>1. b \in BaseType /\ CountersAgree(b) /\ QueuesAgree(b) /\ ~b.errx
  BY DEF BaseInv
<1>2. /\ c.flags = [b.flags EXCEPT ![e] = @ \cup {q}]
      /\ c.event_count = IF e = ev_signal THEN b.event_count ELSE b.event_count + 1
      /\ c.event_count_active = IF q = "ACTIVE" THEN b.event_count_active + 1
                                                ELSE b.event_count_active
      /\ c.activequeues = IF q = "ACTIVE" THEN Linked(b, e) ELSE b.activequeues
      /\ c.ev_pri = b.ev_pri /\ c.errx = b.errx
  BY <1>1, InsertFields
<1>3. q = "ACTIVE" => Linked(b, e) \in Seq(Seq(Event))
  BY <1>1, LinkedLemma
<1>4. c \in BaseType
  <2> DEFINE F == [b.flags EXCEPT ![e] = @ \cup {q}]
             N == IF e = ev_signal THEN b.event_count ELSE b.event_count + 1
             M == IF q = "ACTIVE" THEN b.event_count_active + 1
                                  ELSE b.event_count_active
             A == IF q = "ACTIVE" THEN Linked(b, e) ELSE b.activequeues
  <2>1. c = [b EXCEPT !.flags = F, !.event_count = N, !.event_count_active = M,
                      !.activequeues = A]
    BY <1>1 DEF BaseType, event_queue_insert
  <2>2. F \in [Event -> SUBSET Lists] /\ N \in Int /\ M \in Int
    BY <1>1 DEF BaseType
  <2>3. A \in Seq(Seq(Event))
    BY <1>1, <1>3 DEF BaseType
  <2> HIDE DEF F, N, M, A, c
  <2> QED BY <1>1, <2>1, <2>2, <2>3, UpdateType
<1> HIDE DEF c
<1>5. CountersAgree(c)
  BY <1>1, <1>2, <1>4, InsertCounts
<1>6. QueuesAgree(c)
  <2>1. CASE q = "ACTIVE"
    <3>1. /\ nactivequeues(c) = nactivequeues(b)
          /\ \A i \in 1..nactivequeues(b) :
                /\ NoDuplicates(c.activequeues[i])
                /\ \A f \in Event :
                      Holds(c.activequeues[i], f) <=>
                          Holds(b.activequeues[i], f) \/ (i = QueueOf(b, e) /\ f = e)
      BY <1>1, <1>2, <2>1, LinkedLemma DEF nactivequeues
    <3>2. \A f \in Event : "ACTIVE" \in c.flags[f] <=> "ACTIVE" \in b.flags[f] \/ f = e
      BY <1>1, <1>2, <2>1 DEF BaseType
    <3>3. \A f \in Event : QueueOf(c, f) = QueueOf(b, f)
      BY <1>2 DEF QueueOf
    <3> QED BY <1>1, <1>2, <2>1, <3>1, <3>2, <3>3 DEF QueuesAgree
  <2>2. CASE q # "ACTIVE"
    <3>1. \A f \in Event : "ACTIVE" \in c.flags[f] <=> "ACTIVE" \in b.flags[f]
      BY <1>1, <1>2, <2>2 DEF BaseType
    <3> QED BY <1>1, <1>2, <2>2, <3>1 DEF QueuesAgree, nactivequeues, QueueOf
  <2> QED BY <2>1, <2>2
<1> QED BY <1>1, <1>2, <1>4, <1>5, <1>6 DEF BaseInv, c

(***************************************************************************)
(* A change of fields that the invariant does not mention.                 *)
(***************************************************************************)
LEMMA SameBooks ==
    ASSUME NEW b, BaseInv(b), NEW c \in BaseType,
           c.flags = b.flags, c.activequeues = b.activequeues, c.ev_pri = b.ev_pri,
           c.event_count = b.event_count, c.errx = b.errx,
           c.event_count_active = b.event_count_active
    PROVE  BaseInv(c)
BY DEF BaseInv, CountersAgree, Memberships, On, QueuesAgree, nactivequeues, QueueOf

(***************************************************************************)
(* The priority of an event that is not active may change.                 *)
(***************************************************************************)
LEMMA PriorityLemma ==
    ASSUME NEW b, BaseInv(b), NEW c \in BaseType, NEW e \in Event, NEW pri \in Nat,
           "ACTIVE" \notin b.flags[e], pri < nactivequeues(b),
           c.ev_pri = [b.ev_pri EXCEPT ![e] = pri],
           c.flags = b.flags, c.activequeues = b.activequeues,
           c.event_count = b.event_count, c.errx = b.errx,
           c.event_count_active = b.event_count_active
    PROVE  BaseInv(c) /\ nactivequeues(c) = nactivequeues(b)
<1>1. CountersAgree(c)
  BY DEF BaseInv, CountersAgree, Memberships, On
<1>2. QueuesAgree(c)
  <2>1. QueuesAgree(b) /\ b.ev_pri \in [Event -> Nat]
    BY DEF BaseInv, BaseType
  <2>2. nactivequeues(c) = nactivequeues(b)
    BY DEF nactivequeues
  <2>3. \A f \in Event : c.ev_pri[f] < nactivequeues(c)
    BY <2>1, <2>2 DEF QueuesAgree
  <2>4. \A f \in Event : "ACTIVE" \in b.flags[f] => QueueOf(c, f) = QueueOf(b, f)
    BY <2>1 DEF QueueOf
  <2> QED BY <2>1, <2>2, <2>3, <2>4 DEF QueuesAgree
<1> QED BY <1>1, <1>2 DEF BaseInv, nactivequeues

-----------------------------------------------------------------------------
(***************************************************************************)
(* The operations.  Keeps: the invariant holds after the operation and the *)
(* queues are the same ones.  SameTimes: no time and no result changed.    *)
(***************************************************************************)
Keeps(b, c) ==
    /\ BaseInv(c)
    /\ nactivequeues(c) = nactivequeues(b)
    /\ c.ev_pri = b.ev_pri

SameTimes(b, c) == c.ev_timeout = b.ev_timeout /\ c.ev_res = b.ev_res

LEMMA RemoveKeeps ==
    ASSUME NEW b, BaseInv(b), NEW e \in Event, NEW q \in Lists, q \in b.flags[e]
    PROVE  LET c == event_queue_remove(b, e, q)
           IN  /\ Keeps(b, c) /\ SameTimes(b, c)
               /\ c.flags = [b.flags EXCEPT ![e] = @ \ {q}]
<1> DEFINE c == event_queue_remove(b, e, q)
<1>1. b \in BaseType /\ QueuesAgree(b)
  BY DEF BaseInv
<1>2. /\ c.flags = [b.flags EXCEPT ![e] = @ \ {q}]
      /\ c.activequeues = IF q = "ACTIVE" THEN Unlinked(b, e) ELSE b.activequeues
      /\ c.ev_pri = b.ev_pri /\ c.ev_timeout = b.ev_timeout /\ c.ev_res = b.ev_res
  BY <1>1, RemoveFields
<1>3. BaseInv(c)
  BY RemoveLemma
<1>4. q = "ACTIVE" => Len(Unlinked(b, e)) = nactivequeues(b)
  BY <1>1, UnlinkedLemma
<1> HIDE DEF c
<1> QED BY <1>2, <1>3, <1>4 DEF c, Keeps, SameTimes, nactivequeues

LEMMA InsertKeeps ==
    ASSUME NEW b, BaseInv(b), NEW e \in Event, NEW q \in Lists, q \notin b.flags[e]
    PROVE  LET c == event_queue_insert(b, e, q)
           IN  /\ Keeps(b, c) /\ SameTimes(b, c)
               /\ c.flags = [b.flags EXCEPT ![e] = @ \cup {q}]
<1> DEFINE c == event_queue_insert(b, e, q)
<1>1. b \in BaseType /\ QueuesAgree(b)
  BY DEF BaseInv
<1>2. /\ c.flags = [b.flags EXCEPT ![e] = @ \cup {q}]
      /\ c.activequeues = IF q = "ACTIVE" THEN Linked(b, e) ELSE b.activequeues
      /\ c.ev_pri = b.ev_pri /\ c.ev_timeout = b.ev_timeout /\ c.ev_res = b.ev_res
  BY <1>1, InsertFields
<1>3. BaseInv(c)
  BY InsertLemma
<1>4. q = "ACTIVE" => Len(Linked(b, e)) = nactivequeues(b)
  BY <1>1, LinkedLemma
<1> HIDE DEF c
<1> QED BY <1>2, <1>3, <1>4 DEF c, Keeps, SameTimes, nactivequeues

LEMMA AbortKeeps ==
    ASSUME NEW b, BaseInv(b), NEW e \in Event
    PROVE  LET c == AbortLoop(b, e)
           IN  Keeps(b, c) /\ SameTimes(b, c) /\ c.flags = b.flags
<1> DEFINE c == AbortLoop(b, e)
<1>1. b \in BaseType
  BY DEF BaseInv
<1>2. /\ c \in BaseType
      /\ c.flags = b.flags /\ c.activequeues = b.activequeues /\ c.ev_pri = b.ev_pri
      /\ c.event_count = b.event_count /\ c.errx = b.errx
      /\ c.event_count_active = b.event_count_active
      /\ c.ev_timeout = b.ev_timeout /\ c.ev_res = b.ev_res
  BY <1>1 DEF BaseType, AbortLoop
<1> HIDE DEF c
<1>3. BaseInv(c)
  BY <1>2, SameBooks
<1> QED BY <1>2, <1>3 DEF c, Keeps, SameTimes, nactivequeues

LEMMA RemoveIfOnKeeps ==
    ASSUME NEW b, BaseInv(b), NEW e \in Event, NEW q \in Lists
    PROVE  LET c == RemoveIfOn(b, e, q)
           IN  /\ Keeps(b, c) /\ SameTimes(b, c)
               /\ c.flags = [b.flags EXCEPT ![e] = @ \ {q}]
<1>1. CASE q \in b.flags[e]
  BY <1>1, RemoveKeeps DEF RemoveIfOn
<1>2. CASE q \notin b.flags[e]
  <2>1. b.flags = [b.flags EXCEPT ![e] = @ \ {q}]
    BY <1>2 DEF BaseInv, BaseType
  <2> QED BY <1>2, <2>1 DEF RemoveIfOn, Keeps, SameTimes
<1> QED BY <1>1, <1>2

LEMMA DelKeeps ==
    ASSUME NEW b, BaseInv(b), NEW e \in Event
    PROVE  LET c == event_del(b, e)
           IN  /\ Keeps(b, c) /\ SameTimes(b, c)
               /\ "TIMEOUT" \notin c.flags[e] /\ "ACTIVE" \notin c.flags[e]
               /\ \A f \in Event \ {e} : c.flags[f] = b.flags[f]
<1> DEFINE b0 == AbortLoop(b, e)
           b1 == RemoveIfOn(b0, e, "TIMEOUT")
           b2 == RemoveIfOn(b1, e, "ACTIVE")
           c == event_del(b, e)
<1>1. Keeps(b, b0) /\ SameTimes(b, b0) /\ b0.flags = b.flags
  BY AbortKeeps
<1>2. /\ Keeps(b0, b1) /\ SameTimes(b0, b1)
      /\ b1.flags = [b0.flags EXCEPT ![e] = @ \ {"TIMEOUT"}]
  BY <1>1, RemoveIfOnKeeps DEF Keeps, Lists
<1>3. /\ Keeps(b1, b2) /\ SameTimes(b1, b2)
      /\ b2.flags = [b1.flags EXCEPT ![e] = @ \ {"ACTIVE"}]
  BY <1>2, RemoveIfOnKeeps DEF Keeps, Lists
<1>4. PICK q \in Lists : c = RemoveIfOn(b2, e, q)
  BY DEF event_del, RemoveIfOn, Lists
<1>5. /\ Keeps(b2, c) /\ SameTimes(b2, c)
      /\ c.flags = [b2.flags EXCEPT ![e] = @ \ {q}]
  BY <1>3, <1>4, RemoveIfOnKeeps DEF Keeps
<1>6. b.flags \in [Event -> SUBSET Lists]
  BY DEF BaseInv, BaseType
<1> HIDE DEF b0, b1, b2, c
<1>7. Keeps(b, c) /\ SameTimes(b, c)
  BY <1>1, <1>2, <1>3, <1>5 DEF Keeps, SameTimes
<1>8. /\ "TIMEOUT" \notin c.flags[e] /\ "ACTIVE" \notin c.flags[e]
      /\ \A f \in Event \ {e} : c.flags[f] = b.flags[f]
  BY <1>1, <1>2, <1>3, <1>5, <1>6
<1> QED BY <1>7, <1>8 DEF c

LEMMA ActiveKeeps ==
    ASSUME NEW b, BaseInv(b), NEW e \in Event, NEW res \in SUBSET Result, NEW n \in Nat
    PROVE  LET c == event_active(b, e, res, n)
           IN  /\ Keeps(b, c)
               /\ c.ev_timeout = b.ev_timeout
               /\ c.flags = [b.flags EXCEPT ![e] = @ \cup {"ACTIVE"}]
               /\ c.ev_res = [b.ev_res EXCEPT ![e] =
                      IF "ACTIVE" \in b.flags[e] THEN @ \cup res ELSE res]
<1> DEFINE c == event_active(b, e, res, n)
<1>1. b \in BaseType
  BY DEF BaseInv
<1>2. CASE "ACTIVE" \in b.flags[e]
  <2> DEFINE d == [b EXCEPT !.ev_res[e] = @ \cup res]
  <2>1. /\ d \in BaseType
        /\ d.flags = b.flags /\ d.activequeues = b.activequeues /\ d.ev_pri = b.ev_pri
        /\ d.event_count = b.event_count /\ d.errx = b.errx
        /\ d.event_count_active = b.event_count_active
        /\ d.ev_timeout = b.ev_timeout
        /\ d.ev_res = [b.ev_res EXCEPT ![e] = @ \cup res]
    BY <1>1 DEF BaseType
  <2>2. c = d
    BY <1>2 DEF event_active
  <2>3. b.flags = [b.flags EXCEPT ![e] = @ \cup {"ACTIVE"}]
    BY <1>1, <1>2 DEF BaseType
  <2> HIDE DEF c, d
  <2>4. BaseInv(d)
    BY <2>1, SameBooks
  <2> QED BY <1>2, <2>1, <2>2, <2>3, <2>4 DEF c, Keeps, nactivequeues
<1>3. CASE "ACTIVE" \notin b.flags[e]
  <2> DEFINE d == [b EXCEPT !.ev_res[e] = res, !.ev_ncalls[e] = n, !.ev_pncalls[e] = FALSE]
  <2>1. /\ d \in BaseType
        /\ d.flags = b.flags /\ d.activequeues = b.activequeues /\ d.ev_pri = b.ev_pri
        /\ d.event_count = b.event_count /\ d.errx = b.errx
        /\ d.event_count_active = b.event_count_active
        /\ d.ev_timeout = b.ev_timeout
        /\ d.ev_res = [b.ev_res EXCEPT ![e] = res]
    BY <1>1 DEF BaseType
  <2>2. c = event_queue_insert(d, e, "ACTIVE")
    BY <1>3 DEF event_active
  <2> HIDE DEF c, d
  <2>3. BaseInv(d)
    BY <2>1, SameBooks
  <2>4. /\ Keeps(d, c) /\ SameTimes(d, c)
        /\ c.flags = [d.flags EXCEPT ![e] = @ \cup {"ACTIVE"}]
    BY <1>3, <2>1, <2>2, <2>3, InsertKeeps DEF Lists
  <2> QED BY <1>3, <2>1, <2>4 DEF c, Keeps, SameTimes, nactivequeues
<1> QED BY <1>2, <1>3

(***************************************************************************)
(* event_add with a timeout: the timer is armed for now + tv, and what an  *)
(* earlier expiry left in the active queue is gone.                        *)
(***************************************************************************)
LEMMA AddTimeoutKeeps ==
    ASSUME NEW b, BaseInv(b), NEW e \in Event, NEW tv \in Int, NEW now \in Int
    PROVE  LET c == AddTimeout(b, e, tv, now)
           IN  /\ Keeps(b, c)
               /\ c.ev_res = b.ev_res
               /\ c.ev_timeout = [b.ev_timeout EXCEPT ![e] = now + tv]
               /\ "ACTIVE" \in c.flags[e] => "TIMEOUT" \notin c.ev_res[e]
               /\ \A f \in Event \ {e} : c.flags[f] = b.flags[f]
<1> DEFINE b1 == RemoveIfOn(b, e, "TIMEOUT")
           a == AbortLoop(b1, e)
           b2 == IF "ACTIVE" \in b1.flags[e] /\ "TIMEOUT" \in b1.ev_res[e]
                 THEN event_queue_remove(a, e, "ACTIVE") ELSE b1
           b3 == [b2 EXCEPT !.ev_timeout[e] = now + tv]
           c == AddTimeout(b, e, tv, now)
<1>1. /\ Keeps(b, b1) /\ SameTimes(b, b1)
      /\ b1.flags = [b.flags EXCEPT ![e] = @ \ {"TIMEOUT"}]
  BY RemoveIfOnKeeps DEF Lists
<1>2. Keeps(b1, a) /\ SameTimes(b1, a) /\ a.flags = b1.flags
  BY <1>1, AbortKeeps DEF Keeps
<1>3. c = event_queue_insert(b3, e, "TIMEOUT")
  BY DEF AddTimeout
<1>4. b.flags \in [Event -> SUBSET Lists] /\ b1.flags \in [Event -> SUBSET Lists]
  BY <1>1 DEF Keeps, BaseInv, BaseType
<1> HIDE DEF b1, a, c
<1>5. /\ Keeps(b1, b2) /\ SameTimes(b1, b2)
      /\ "TIMEOUT" \notin b2.flags[e]
      /\ "ACTIVE" \in b2.flags[e] => "TIMEOUT" \notin b2.ev_res[e]
      /\ \A f \in Event \ {e} : b2.flags[f] = b1.flags[f]
  <2>1. CASE "ACTIVE" \in b1.flags[e] /\ "TIMEOUT" \in b1.ev_res[e]
    <3>1. b2 = event_queue_remove(a, e, "ACTIVE")
      BY <2>1
    <3> HIDE DEF b2
    <3>2. /\ Keeps(a, b2) /\ SameTimes(a, b2)
          /\ b2.flags = [a.flags EXCEPT ![e] = @ \ {"ACTIVE"}]
      BY <1>2, <2>1, <3>1, RemoveKeeps DEF Keeps, Lists
    <3>3. Keeps(b1, b2) /\ SameTimes(b1, b2)
      BY <1>2, <3>2 DEF Keeps, SameTimes
    <3> QED BY <1>1, <1>2, <1>4, <3>2, <3>3
  <2>2. CASE ~("ACTIVE" \in b1.flags[e] /\ "TIMEOUT" \in b1.ev_res[e])
    <3>1. b2 = b1
      BY <2>2
    <3> HIDE DEF b2
    <3> QED BY <1>1, <1>4, <2>2, <3>1 DEF Keeps, SameTimes
  <2> QED BY <2>1, <2>2
<1> HIDE DEF b2
<1>6. /\ b3 \in BaseType
      /\ b3.flags = b2.flags /\ b3.activequeues = b2.activequeues
      /\ b3.ev_pri = b2.ev_pri /\ b3.ev_res = b2.ev_res
      /\ b3.event_count = b2.event_count /\ b3.errx = b2.errx
      /\ b3.event_count_active = b2.event_count_active
      /\ b3.ev_timeout = [b2.ev_timeout EXCEPT ![e] = now + tv]
  <2>1. b2 \in BaseType /\ now + tv \in Int
    BY <1>5 DEF Keeps, BaseInv
  <2> QED BY <2>1 DEF BaseType
<1> HIDE DEF b3
<1>7. BaseInv(b3)
  BY <1>5, <1>6, SameBooks DEF Keeps
<1>8. /\ Keeps(b3, c) /\ SameTimes(b3, c)
      /\ c.flags = [b3.flags EXCEPT ![e] = @ \cup {"TIMEOUT"}]
  BY <1>3, <1>5, <1>6, <1>7, InsertKeeps DEF Lists
<1>9. Keeps(b, c) /\ c.ev_res = b.ev_res
      /\ c.ev_timeout = [b.ev_timeout EXCEPT ![e] = now + tv]
  BY <1>1, <1>5, <1>6, <1>8 DEF Keeps, SameTimes, nactivequeues
<1>10. b2.flags \in [Event -> SUBSET Lists]
  BY <1>5 DEF Keeps, BaseInv, BaseType
<1>11. /\ "ACTIVE" \in c.flags[e] => "TIMEOUT" \notin c.ev_res[e]
       /\ \A f \in Event \ {e} : c.flags[f] = b.flags[f]
  BY <1>1, <1>4, <1>5, <1>6, <1>8, <1>10 DEF SameTimes
<1> QED BY <1>9, <1>11 DEF c

LEMMA EvsignalAddKeeps ==
    ASSUME NEW b, BaseInv(b), NEW ok
    PROVE  LET c == evsignal_add(b, ok)
           IN  /\ Keeps(b, c) /\ SameTimes(b, c)
               /\ \A f \in Event : c.flags[f] \in {b.flags[f], b.flags[f] \cup {"INSERTED"}}
<1> DEFINE b1 == [b EXCEPT !.ev_signal_added = TRUE]
           c == evsignal_add(b, ok)
<1>1. b \in BaseType /\ ev_signal \in Event
  BY EventAssumption DEF BaseInv
<1>2. CASE b.ev_signal_added
  <2>1. c = b
    BY <1>2 DEF evsignal_add
  <2> QED BY <2>1 DEF Keeps, SameTimes
<1>3. CASE ~b.ev_signal_added
  <2>1. /\ b1 \in BaseType
        /\ b1.flags = b.flags /\ b1.activequeues = b.activequeues
        /\ b1.ev_pri = b.ev_pri /\ b1.ev_res = b.ev_res
        /\ b1.event_count = b.event_count /\ b1.errx = b.errx
        /\ b1.event_count_active = b.event_count_active
        /\ b1.ev_timeout = b.ev_timeout
    BY <1>1 DEF BaseType
  <2>2. c = IF WantsIo(b1, ev_signal) /\ ev_signal \in ok
            THEN event_queue_insert(b1, ev_signal, "INSERTED") ELSE b1
    BY <1>3 DEF evsignal_add
  <2> HIDE DEF b1, c
  <2>3. BaseInv(b1)
    BY <2>1, SameBooks
  <2>4. Keeps(b, b1) /\ SameTimes(b, b1)
    BY <2>1, <2>3 DEF Keeps, SameTimes, nactivequeues
  <2>5. CASE c = b1
    BY <2>1, <2>4, <2>5 DEF c
  <2>6. CASE WantsIo(b1, ev_signal) /\ c = event_queue_insert(b1, ev_signal, "INSERTED")
    <3>1. "INSERTED" \notin b1.flags[ev_signal]
      BY <2>6 DEF WantsIo
    <3>2. /\ Keeps(b1, c) /\ SameTimes(b1, c)
          /\ c.flags = [b1.flags EXCEPT ![ev_signal] = @ \cup {"INSERTED"}]
      BY <1>1, <2>3, <2>6, <3>1, InsertKeeps DEF Lists
    <3>3. b.flags \in [Event -> SUBSET Lists]
      BY <1>1 DEF BaseType
    <3>4. Keeps(b, c) /\ SameTimes(b, c)
      BY <2>4, <3>2 DEF Keeps, SameTimes
    <3>5. \A f \in Event : c.flags[f] \in {b.flags[f], b.flags[f] \cup {"INSERTED"}}
      BY <2>1, <3>2, <3>3
    <3> QED BY <3>4, <3>5 DEF c
  <2> QED BY <2>2, <2>5, <2>6
<1> QED BY <1>2, <1>3

(***************************************************************************)
(* event_add: the other events keep their times and results and stay on or *)
(* off the timer heap and the active queues.                               *)
(***************************************************************************)
SameAT(b, c, f) ==
    \A q \in {"ACTIVE", "TIMEOUT"} : q \in c.flags[f] <=> q \in b.flags[f]

LEMMA AddKeeps ==
    ASSUME NEW b, BaseInv(b), NEW e \in Event, NEW tv \in Int, NEW now \in Int, NEW ok
    PROVE  LET c == event_add(b, e, tv, now, ok)
           IN  /\ Keeps(b, c)
               /\ c.ev_res = b.ev_res
               /\ \A f \in Event \ {e} : SameAT(b, c, f)
               /\ tv = NoTimeout => SameAT(b, c, e) /\ c.ev_timeout = b.ev_timeout
               /\ tv # NoTimeout =>
                     /\ c.ev_timeout = [b.ev_timeout EXCEPT ![e] = now + tv]
                     /\ "ACTIVE" \in c.flags[e] => "TIMEOUT" \notin c.ev_res[e]
<1> DEFINE b1 == IF tv = NoTimeout THEN b ELSE AddTimeout(b, e, tv, now)
           s == evsignal_add(b1, ok)
           c == event_add(b, e, tv, now, ok)
<1>1. /\ Keeps(b, b1)
      /\ b1.ev_res = b.ev_res
      /\ \A f \in Event \ {e} : b1.flags[f] = b.flags[f]
      /\ tv = NoTimeout => b1.flags = b.flags /\ b1.ev_timeout = b.ev_timeout
      /\ tv # NoTimeout =>
            /\ b1.ev_timeout = [b.ev_timeout EXCEPT ![e] = now + tv]
            /\ "ACTIVE" \in b1.flags[e] => "TIMEOUT" \notin b1.ev_res[e]
  <2>1. CASE tv = NoTimeout
    BY <2>1 DEF Keeps
  <2>2. CASE tv # NoTimeout
    <3>1. b1 = AddTimeout(b, e, tv, now)
      BY <2>2
    <3> HIDE DEF b1
    <3> QED BY <2>2, <3>1, AddTimeoutKeeps
  <2> QED BY <2>1, <2>2
<1>2. c = IF WantsIo(b1, e)
          THEN IF e \in ok THEN event_queue_insert(b1, e, "INSERTED") ELSE b1
          ELSE IF WantsSignal(b1, e) /\ e \in ok
               THEN event_queue_insert(s, e, "SIGNAL")
               ELSE b1
  BY DEF event_add
<1> HIDE DEF b1, c
<1>3. b1.flags \in [Event -> SUBSET Lists]
  BY <1>1 DEF Keeps, BaseInv, BaseType
<1>4. Keeps(b1, c) /\ SameTimes(b1, c) /\ \A f \in Event : SameAT(b1, c, f)
  <2>1. CASE c = b1
    BY <1>1, <2>1 DEF Keeps, SameTimes, SameAT
  <2>2. CASE WantsIo(b1, e) /\ c = event_queue_insert(b1, e, "INSERTED")
    <3>1. "INSERTED" \notin b1.flags[e]
      BY <2>2 DEF WantsIo
    <3>2. /\ Keeps(b1, c) /\ SameTimes(b1, c)
          /\ c.flags = [b1.flags EXCEPT ![e] = @ \cup {"INSERTED"}]
      BY <1>1, <2>2, <3>1, InsertKeeps DEF Keeps, Lists
    <3> QED BY <1>3, <3>2 DEF SameAT
  <2>3. CASE WantsSignal(b1, e) /\ c = event_queue_insert(s, e, "SIGNAL")
    <3>1. /\ Keeps(b1, s) /\ SameTimes(b1, s)
          /\ \A f \in Event : s.flags[f] \in {b1.flags[f], b1.flags[f] \cup {"INSERTED"}}
      BY <1>1, EvsignalAddKeeps DEF Keeps
    <3> HIDE DEF s
    <3>2. "SIGNAL" \notin s.flags[e]
      BY <2>3, <3>1 DEF WantsSignal
    <3>3. /\ Keeps(s, c) /\ SameTimes(s, c)
          /\ c.flags = [s.flags EXCEPT ![e] = @ \cup {"SIGNAL"}]
      BY <2>3, <3>1, <3>2, InsertKeeps DEF Keeps, Lists
    <3>4. Keeps(b1, c) /\ SameTimes(b1, c)
      BY <3>1, <3>3 DEF Keeps, SameTimes
    <3>5. s.flags \in [Event -> SUBSET Lists]
      BY <3>1 DEF Keeps, BaseInv, BaseType
    <3> QED BY <1>3, <3>1, <3>3, <3>4, <3>5 DEF SameAT
  <2> QED BY <1>2, <2>1, <2>2, <2>3
<1>5. Keeps(b, c) /\ c.ev_res = b.ev_res /\ c.ev_timeout = b1.ev_timeout
  BY <1>1, <1>4 DEF Keeps, SameTimes
<1>6. \A f \in Event \ {e} : SameAT(b, c, f)
  BY <1>1, <1>4 DEF SameAT
<1>7. tv = NoTimeout => SameAT(b, c, e)
  BY <1>1, <1>4 DEF SameAT
<1>8. tv # NoTimeout => ("ACTIVE" \in c.flags[e] => "TIMEOUT" \notin c.ev_res[e])
  BY <1>1, <1>4, <1>5 DEF SameAT
<1> QED BY <1>1, <1>5, <1>6, <1>7, <1>8 DEF c
=============================================================================
