-------------------------------- MODULE Evdns --------------------------------
(***************************************************************************)
(* The stub resolver of libevent 1.4.3 (evdns.c): requests in flight and   *)
(* waiting, the ring of nameservers with failover and probes, time-outs    *)
(* and retransmissions, the search list, suspension and shutdown.          *)
(*                                                                         *)
(* The resolver is static data of one thread, and none of its functions    *)
(* yields: its state is one record d, an API call or a callback of         *)
(* libevent is one function of d.  A circular list is the sequence that    *)
(* starts at its head.  Time is abstract: an armed timer may fire at any   *)
(* moment.  A datagram may be lost, duplicated, delayed and overtaken.     *)
(* What is in a packet is abstracted to the question it asks (module       *)
(* DnsWire has the encoding); PTR requests are queries without search.     *)
(***************************************************************************)
EXTENDS Integers, Sequences, FiniteSets, SequencesExt, FiniteSetsExt

CONSTANTS
    Server,      \* addresses of nameservers
    User,        \* the queries of the application, each resolved once
    NULL,
    Object,      \* memory for struct request
    TransId,     \* transaction ids, without 0xffff
    Dots,        \* [User -> Nat]: dots in the name asked for
    NoSearch,    \* queries resolved with DNS_QUERY_NO_SEARCH, or reverse ones
    OnReply,     \* [User -> User or NULL]: what its callback resolves next
    Suspender,   \* queries whose callback clears the nameservers
    Confs,       \* the resolv.conf files, sequences of lines
    Hostname,    \* domain in the host's name
    SearchDomain, Ndots,  \* arguments of the calls that set the search list
    MaxReissues,
    Wraps,       \* TRUE: the id function may return ids that are still in use
    Careless,    \* TRUE: resume without nameservers, shutdown while suspended
    MaxNet,      \* bound: queries that can still be answered
    MaxUpsets    \* bound: probes, sockets that block or fail, suspensions,
                 \* shutdowns and changes of the search list, together

NOID == -1       \* 0xffff: no transaction id yet

ASSUME EvdnsAssumption ==
    /\ Object \subseteq Nat /\ TransId \subseteq Nat
    /\ NULL \notin User \cup Server \cup Object
    /\ Dots \in [User -> Nat]
    /\ OnReply \in [User -> User \cup {NULL}]
    /\ NoSearch \subseteq User /\ Suspender \subseteq User
    /\ MaxReissues \in Nat /\ MaxNet \in Nat /\ MaxUpsets \in Nat
    /\ Wraps \in BOOLEAN /\ Careless \in BOOLEAN

Kind == {"ok", "notexist", "other", "refused", "servfail"}

VARIABLE d
vars == <<d>>

\* struct nameserver after _evdns_nameserver_add_impl.  timer: probe pending.
FreshServer ==
    [state |-> 1, timedout |-> 0, choked |-> FALSE, write_waiting |-> FALSE,
     timer |-> FALSE]

\* The static variables of evdns.c at the start of the program.
Start ==
    [req |-> << >>,                    \* Object -> struct request
     head |-> <<>>, inflight |-> 0,    \* req_head, global_requests_inflight
     wait |-> <<>>, waiting |-> 0,     \* req_waiting_head, .._waiting
     ring |-> <<>>, good |-> 0,        \* server_head, global_good_nameservers
     ns |-> [s \in Server |-> FreshServer],
     ss |-> << >>, global |-> 0,       \* search states; 0 is NULL
     max_inflight |-> 64, max_retransmits |-> 3, max_timeouts |-> 3,
     sock |-> [s \in Server |-> "ok"], \* does the kernel take a datagram
     net |-> {},                       \* queries that reached a server
     calls |-> [u \in User |-> 0],    \* calls of the user's callback
     mixed_up |-> {},                  \* queries given another one's answer
     submitted |-> {}, discarded |-> {}, upsets |-> 0,
     fault |-> "none"]                 \* assertion, NULL or freed memory

Fault(dd, f) == IF dd.fault = "none" THEN [dd EXCEPT !.fault = f] ELSE dd
Failed(dd)   == dd.fault # "none"

Rotate(s, k) == SubSeq(s, k + 1, Len(s)) \o SubSeq(s, 1, k)
Without(s, r) == SelectSeq(s, LAMBDA x : x # r)

-----------------------------------------------------------------------------
(* Choosing a nameserver and a transaction id                              *)

GoodAt(dd) == {k \in DOMAIN dd.ring : dd.ns[dd.ring[k]].state = 1}

Picked(dd) ==
    CASE dd.ring = <<>>  -> NULL
      [] dd.good = 0     -> Rotate(dd.ring, 1)[1]
      [] GoodAt(dd) = {} -> dd.ring[1]
      [] OTHER           -> dd.ring[Min(GoodAt(dd))]

\* nameserver_pick moves server_head; it asserts that there is a good server
\* when the counter says so.
AfterPick(dd) ==
    CASE dd.ring = <<>>  -> dd
      [] dd.good = 0     -> [dd EXCEPT !.ring = Rotate(@, 1)]
      [] GoodAt(dd) = {} -> Fault(dd, "assert")
      [] OTHER           -> [dd EXCEPT !.ring = Rotate(@, Min(GoodAt(dd)))]

InUse(dd) == {dd.req[r].trans_id : r \in Range(dd.head)}

\* What trans_id_function (evdns_set_transaction_id_fn) may return.
IdFunction(dd) ==
    IF Wraps THEN TransId
    ELSE TransId \ (InUse(dd) \cup {m.id : m \in dd.net})

\* transaction_id_pick: the loop leaves the list at a request with the same
\* id, and takes the id if that was the first one.
Acceptable(dd, i) ==
    \/ dd.head # <<>> /\ dd.req[Head(dd.head)].trans_id = i
    \/ i \notin InUse(dd)
IdPick(dd) == Min({i \in IdFunction(dd) : Acceptable(dd, i)})

-----------------------------------------------------------------------------
(* Health of nameservers                                                   *)

Reassign(dd, s) ==
    FoldLeft(LAMBDA x, r :
        IF x.req[r].tx_count = 0 /\ x.req[r].ns = s
        THEN [AfterPick(x) EXCEPT !.req[r].ns = Picked(x)] ELSE x,
        dd, dd.head)

nameserver_failed(dd, s) ==
    IF dd.ns[s].state = 0 THEN dd
    ELSE LET e == [dd EXCEPT !.good = @ - 1, !.ns[s].state = 0,
                             !.ns[s].timer = TRUE]
         IN  CASE e.good < 0 -> Fault(e, "assert")
               [] e.good = 0 -> e
               [] OTHER      -> Reassign(e, s)

\* Mutant: a server that is up is counted again.
nameserver_up_again(dd, s) ==
    IF s = NULL THEN Fault(dd, "null")
    ELSE [dd EXCEPT !.ns[s].state = 1, !.ns[s].timer = FALSE, !.good = @ + 1]

nameserver_up(dd, s) ==
    CASE s = NULL -> Fault(dd, "null")
      [] s # NULL /\ dd.ns[s].state = 1 -> dd
      [] OTHER -> [dd EXCEPT !.ns[s].state = 1, !.ns[s].timer = FALSE,
                             !.ns[s].timedout = 0, !.good = @ + 1]

\* Mutant: no further probe after one failed.
probe_failed_for_good(dd, s) == [dd EXCEPT !.ns[s].timer = FALSE]

nameserver_probe_failed(dd, s) ==
    [dd EXCEPT !.ns[s].timer = (dd.ns[s].state = 0)]

\* The callback of a probe; its argument may be a server freed since.
nameserver_probe_callback(dd, s, result) ==
    CASE s = NULL -> Fault(dd, "freed")
      [] result \in {"ok", "notexist"} -> nameserver_up(dd, s)
      [] OTHER -> nameserver_probe_failed(dd, s)

-----------------------------------------------------------------------------
(* Sending                                                                 *)

Sent(dd, r) ==
    LET q == dd.req[r]
        m == [ns |-> q.ns, id |-> q.trans_id, asks |-> q.asks]
        old == IF m \in dd.net \/ Cardinality(dd.net) < MaxNet THEN {}
               ELSE {CHOOSE x \in dd.net : TRUE}
    IN  [dd EXCEPT !.net = (@ \ old) \cup {m}]

\* Mutant: transmissions are not counted.
TimedUncounted(dd, r) ==
    [dd EXCEPT !.req[r].timer = TRUE, !.req[r].transmit_me = FALSE]

\* After evdns_request_transmit_to returned 0 or 2.
Timed(dd, r) ==
    [dd EXCEPT !.req[r].timer = TRUE, !.req[r].tx_count = @ + 1,
               !.req[r].transmit_me = FALSE]

evdns_request_transmit(dd, r) ==
    LET s == dd.req[r].ns
        e == [dd EXCEPT !.req[r].transmit_me = TRUE]
    IN  CASE Failed(dd) -> dd
          [] dd.req[r].trans_id = NOID -> Fault(dd, "abort")
          [] s = NULL -> Fault(e, "null")
          [] s # NULL /\ dd.ns[s].choked -> e
          [] s # NULL /\ ~dd.ns[s].choked /\ dd.sock[s] = "full" ->
                [e EXCEPT !.ns[s].choked = TRUE, !.ns[s].write_waiting = TRUE]
          [] s # NULL /\ ~dd.ns[s].choked /\ dd.sock[s] = "error" ->
                Timed(nameserver_failed(e, s), r)
          [] OTHER -> Timed(Sent(e, r), r)

ToTransmit(dd) == \E r \in Range(dd.head) : dd.req[r].transmit_me

evdns_transmit(dd) ==
    FoldLeft(LAMBDA x, r : IF x.req[r].transmit_me
                           THEN evdns_request_transmit(x, r) ELSE x,
             dd, dd.head)

PumpOne(dd) ==
    IF Failed(dd) \/ dd.inflight >= dd.max_inflight \/ dd.waiting = 0 THEN dd
    ELSE IF dd.wait = <<>> THEN Fault(dd, "assert")
    ELSE LET r == Head(dd.wait)
             e == [AfterPick(dd) EXCEPT
                      !.wait = Tail(@), !.waiting = @ - 1,
                      !.inflight = @ + 1, !.head = Append(@, r),
                      !.req[r].ns = Picked(dd),
                      !.req[r].trans_id = IdPick(dd)]
         IN  evdns_transmit(evdns_request_transmit(e, r))

\* Each turn of the loop takes a request off the waiting list or ends it.
evdns_requests_pump_waiting_queue(dd) ==
    FoldLeft(LAMBDA x, k : PumpOne(x), dd,
             [k \in 1..(dd.waiting + 1) |-> k])

-----------------------------------------------------------------------------
(* Requests and searches                                                   *)

Free(dd) == Object \ DOMAIN dd.req

\* request_new, with room for it: the object and the state after it.
NewObject(dd) == Min(Free(dd))
request_new(dd, who, asks) ==
    LET now == dd.inflight < dd.max_inflight
        q == [who |-> who, asks |-> asks, tx_count |-> 0, reissue_count |-> 0,
              transmit_me |-> FALSE, timer |-> FALSE,
              trans_id |-> IF now THEN IdPick(dd) ELSE NOID,
              ns |-> IF now THEN Picked(dd) ELSE NULL,
              search |-> 0, index |-> 0]
        e == IF now THEN AfterPick(dd) ELSE dd
    IN  [e EXCEPT !.req = [r \in DOMAIN @ \cup {NewObject(dd)} |->
                              IF r \in DOMAIN @ THEN @[r] ELSE q]]

request_submit(dd, r) ==
    IF dd.req[r].ns # NULL
    THEN evdns_request_transmit(
            [dd EXCEPT !.head = Append(@, r), !.inflight = @ + 1], r)
    ELSE [dd EXCEPT !.wait = Append(@, r), !.waiting = @ + 1]

search_state_decref(dd, i) ==
    IF i = 0 THEN dd ELSE [dd EXCEPT !.ss[i].refcount = @ - 1]

Domains(dd, i) == dd.ss[i].domains

\* search_request_new and the resolve functions; a name is the query and
\* the domain put behind it, NULL for the name as it is.
evdns_resolve(dd, u) ==
    LET g == dd.global
        r == NewObject(dd)
        searches == u \notin NoSearch /\ g # 0 /\ Domains(dd, g) # <<>>
        raw  == ~searches \/ Dots[u] >= dd.ss[g].ndots
        name == IF raw THEN NULL ELSE Domains(dd, g)[1]
        e == request_new([dd EXCEPT !.submitted = @ \cup {u}], u, <<u, name>>)
        f == [e EXCEPT !.req[r].search = g,
                       !.req[r].index = IF raw THEN 0 ELSE 1,
                       !.ss[g].refcount = @ + 1]
    IN  CASE Free(dd) = {} -> dd
          [] searches      -> request_submit(f, r)
          [] OTHER         -> request_submit(e, r)

\* search_try_next: the next domain, or the bare name after the last one.
\* (search_index of the code is index - 1.)
NextIndex(dd, r) == dd.req[r].index + 1
MoreToTry(dd, r) ==
    LET q == dd.req[r] IN
    /\ q.search # 0
    /\ Free(dd) # {}
    /\ \/ NextIndex(dd, r) <= Len(Domains(dd, q.search))
       \/ Dots[q.who] < dd.ss[q.search].ndots

\* Mutant: the new request takes no reference to the search list.
search_try_next_unreferenced(dd, r) ==
    LET q == dd.req[r]
        i == NextIndex(dd, r)
        n == NewObject(dd)
        raw == i > Len(Domains(dd, q.search))
        e == request_new(dd, q.who, <<q.who, NULL>>)
        f == [e EXCEPT !.req[n].search = q.search, !.req[n].index = i]
    IN  request_submit(IF raw THEN e ELSE f, n)

search_try_next(dd, r) ==
    LET q == dd.req[r]
        i == NextIndex(dd, r)
        n == NewObject(dd)
        raw == i > Len(Domains(dd, q.search))
        name == IF raw THEN NULL ELSE Domains(dd, q.search)[i]
        e == request_new(dd, q.who, <<q.who, name>>)
        f == [e EXCEPT !.req[n].search = q.search, !.req[n].index = i,
                       !.ss[q.search].refcount = @ + 1]
    IN  request_submit(IF raw THEN e ELSE f, n)

\* request_finished(req, head): list says which head.
request_finished(dd, r, list) ==
    LET e == [dd EXCEPT ![list] = Without(@, r), !.inflight = @ - 1]
        f == search_state_decref(e, e.req[r].search)
        g == [f EXCEPT !.req = [x \in DOMAIN @ \ {r} |-> @[x]]]
    IN  CASE Failed(dd) -> dd
          [] r \notin Range(dd[list]) -> Fault(dd, "freed")
          [] OTHER -> evdns_requests_pump_waiting_queue(g)

\* request_reissue: the other server, or the same one if there is no other.
ReissuePointless(dd, r) == Picked(dd) = dd.req[r].ns
Moved(dd, r) == [AfterPick(dd) EXCEPT !.req[r].ns = Picked(dd)]
request_reissue(dd, r) ==
    [Moved(dd, r) EXCEPT !.req[r].reissue_count = @ + 1,
                         !.req[r].tx_count = 0, !.req[r].transmit_me = TRUE]

-----------------------------------------------------------------------------
(* Suspension                                                              *)

\* Each request in flight goes to the front of the waiting list.  A probe
\* keeps the pointer to its server, which is freed: here it becomes NULL.
Suspended(q) ==
    [q EXCEPT !.tx_count = 0, !.reissue_count = 0, !.ns = NULL,
              !.timer = FALSE, !.trans_id = 0, !.transmit_me = FALSE,
              !.who = IF @ \in Server THEN NULL ELSE @]

evdns_clear_nameservers_and_suspend(dd) ==
    IF dd.ring = <<>> THEN dd
    ELSE [dd EXCEPT
            !.ring = <<>>, !.good = 0,
            !.ns = [s \in Server |-> FreshServer],
            !.net = {m \in @ : m.ns \notin Range(dd.ring)},
            !.req = [r \in DOMAIN @ |-> IF r \in Range(dd.head)
                                        THEN Suspended(@[r]) ELSE @[r]],
            !.wait = Reverse(dd.head) \o @,
            !.waiting = @ + Len(dd.head),
            !.head = <<>>, !.inflight = 0]

-----------------------------------------------------------------------------
(* Answers                                                                 *)

\* The callback of the application: it may resolve another name or clear
\* the nameservers.
UserCallback(dd, u, result, answer, asked) ==
    LET e == [dd EXCEPT !.calls[u] = @ + 1,
                        !.mixed_up = IF result = "ok" /\ answer # asked
                                     THEN @ \cup {u} ELSE @]
        v == OnReply[u]
        f == IF v # NULL /\ v \notin e.submitted THEN evdns_resolve(e, v)
             ELSE e
    IN  IF u \in Suspender THEN evdns_clear_nameservers_and_suspend(f) ELSE f

reply_callback(dd, r, result, answer) ==
    LET q == dd.req[r] IN
    CASE Failed(dd)    -> dd
      [] q.who \in User -> UserCallback(dd, q.who, result, answer, q.asks)
      [] OTHER         -> nameserver_probe_callback(dd, q.who, result)


\* "all else failed": after a search is exhausted.
GiveUp(dd, r, kind) ==
    IF MoreToTry(dd, r) THEN request_finished(search_try_next(dd, r), r, "head")
    ELSE request_finished(reply_callback(dd, r, kind, NULL), r, "head")

reply_handle(dd, r, kind, answer) ==
    LET q == dd.req[r]
        e == nameserver_failed(dd, q.ns)
    IN
    CASE kind = "ok" ->
            LET c == reply_callback(dd, r, "ok", answer)
            IN  request_finished(nameserver_up(c, c.req[r].ns), r, "head")
      [] kind = "refused" /\ q.reissue_count < MaxReissues ->
            IF ReissuePointless(e, r) THEN GiveUp(Moved(e, r), r, kind)
            ELSE request_reissue(e, r)
      [] kind = "refused" /\ q.reissue_count >= MaxReissues ->
            GiveUp(dd, r, kind)
      [] kind = "servfail" -> GiveUp(dd, r, kind)
      [] OTHER -> GiveUp(nameserver_up(dd, q.ns), r, kind)

\* request_find_from_trans_id: the first one of the list.
Matching(dd, i) == SelectSeq(dd.head, LAMBDA r : dd.req[r].trans_id = i)

\* nameserver_read and reply_parse for one datagram.
nameserver_read(dd, m, kind) ==
    LET e == [dd EXCEPT !.ns[m.ns].timedout = 0]
    IN  IF Matching(dd, m.id) = <<>> THEN e
        ELSE reply_handle(e, Head(Matching(dd, m.id)), kind, m.asks)

evdns_request_timeout_callback(dd, r) ==
    LET s == dd.req[r].ns
        over == dd.ns[s].timedout + 1 > dd.max_timeouts
        e == IF over THEN nameserver_failed([dd EXCEPT !.ns[s].timedout = 0], s)
             ELSE [dd EXCEPT !.ns[s].timedout = @ + 1]
        f == [e EXCEPT !.req[r].timer = FALSE]
    IN  IF f.req[r].tx_count >= f.max_retransmits
        THEN request_finished(reply_callback(f, r, "timeout", NULL), r, "head")
        ELSE evdns_request_transmit(f, r)

\* nameserver_ready_callback with EV_WRITE.
WritableCallback(dd, s) ==
    LET e == [dd EXCEPT !.ns[s].choked = FALSE]
    IN  IF ToTransmit(e) THEN evdns_transmit(e)
        ELSE [e EXCEPT !.ns[s].write_waiting = FALSE]

\* nameserver_prod_callback: the probe goes in flight whatever the limit.
nameserver_send_probe(dd, s) ==
    LET r == NewObject(dd)
        e == [dd EXCEPT !.ns[s].timer = FALSE]
        f == request_new(e, s, <<s, NULL>>)
    IN  IF Free(dd) = {} THEN e
        ELSE request_submit([f EXCEPT !.req[r].trans_id = IdPick(f),
                                      !.req[r].ns = s], r)

-----------------------------------------------------------------------------
(* Configuration                                                           *)

\* The new server comes second in the ring.
nameserver_add(dd, s) ==
    IF s \in Range(dd.ring) THEN dd
    ELSE [dd EXCEPT
            !.ring = IF @ = <<>> THEN <<s>> ELSE <<Head(@), s>> \o Tail(@),
            !.ns[s] = FreshServer, !.good = @ + 1]

SearchStateNew(dd) ==
    [dd EXCEPT !.ss = Append(@, [refcount |-> 1, ndots |-> 1,
                                 domains |-> <<>>]),
               !.global = Len(dd.ss) + 1]
WithSearchState(dd) == IF dd.global = 0 THEN SearchStateNew(dd) ELSE dd

search_postfix_clear(dd) ==
    SearchStateNew(search_state_decref(dd, dd.global))
search_postfix_add(dd, domain) ==
    LET e == WithSearchState(dd)
    IN  [e EXCEPT !.ss[e.global].domains = <<domain>> \o @]
search_reverse(dd) == [dd EXCEPT !.ss[dd.global].domains = Reverse(@)]
search_set_from_hostname(dd) ==
    LET e == search_postfix_clear(dd)
    IN  IF Hostname = NULL THEN e ELSE search_postfix_add(e, Hostname)

Clipped(n, lo, hi) == IF n < lo THEN lo ELSE IF n > hi THEN hi ELSE n

\* evdns_set_option: -1 is a value that is not a number.
evdns_set_option(dd, o) ==
    CASE o.val = -1                -> dd
      [] o.name = "ndots"          ->
            LET e == WithSearchState(dd)
            IN  [e EXCEPT !.ss[e.global].ndots = o.val]
      [] o.name = "max-timeouts"   ->
            [dd EXCEPT !.max_timeouts = Clipped(o.val, 1, 255)]
      [] o.name = "max-inflight"   ->
            [dd EXCEPT !.max_inflight = Clipped(o.val, 1, 65000)]
      [] o.name = "attempts"       ->
            [dd EXCEPT !.max_retransmits = IF o.val > 255 THEN 255 ELSE o.val]
      [] OTHER                     -> dd  \* timeout: time is abstract

resolv_conf_parse_line(dd, l) ==
    CASE l.kw = "nameserver" -> nameserver_add(dd, l.arg)
      [] l.kw = "domain" ->
            search_postfix_add(search_postfix_clear(dd), l.arg)
      [] l.kw = "search" ->
            search_reverse(FoldLeft(search_postfix_add,
                                    search_postfix_clear(dd), l.arg))
      [] l.kw = "options" -> FoldLeft(evdns_set_option, dd, l.arg)
      [] OTHER -> dd

\* evdns_resolv_conf_parse with DNS_OPTIONS_ALL; an empty or missing file is
\* <<>>, local the address 127.0.0.1.
evdns_resolv_conf_parse(dd, conf, local) ==
    LET e == FoldLeft(resolv_conf_parse_line, dd, conf)
        f == IF e.ring = <<>> THEN nameserver_add(e, local) ELSE e
    IN  IF f.global = 0 \/ (f.global # 0 /\ Domains(f, f.global) = <<>>)
        THEN search_set_from_hostname(f) ELSE f

FinishFirst(dd, list, fail) ==
    IF dd[list] = <<>> \/ Failed(dd) THEN dd
    ELSE LET r == Head(dd[list])
         IN  request_finished(IF fail THEN reply_callback(dd, r, "shutdown", NULL)
                              ELSE dd, r, list)
FinishAll(dd, list, fail) ==
    FoldLeft(LAMBDA x, k : FinishFirst(x, list, fail), dd,
             [k \in 1..(2 * Cardinality(Object)) |-> k])

evdns_shutdown(dd, fail) ==
    LET e == FinishAll(FinishAll(dd, "head", fail), "wait", fail)
        gone == [e EXCEPT !.ring = <<>>, !.good = 0, !.inflight = 0,
                    !.waiting = 0, !.ns = [s \in Server |-> FreshServer],
                    !.net = {}, !.global = 0]
    IN  IF Failed(e) THEN e
        ELSE IF e.global = 0 THEN gone
        ELSE [gone EXCEPT !.ss[e.global].refcount = 0]

-----------------------------------------------------------------------------
(* The program: libevent's callbacks, the application, the network         *)

Init == \E conf \in Confs :
            d = evdns_resolv_conf_parse(Start, conf, CHOOSE s \in Server : TRUE)

Running == d.fault = "none"
Upset(e) == d.upsets < MaxUpsets /\ d' = [e EXCEPT !.upsets = @ + 1]

Resolve(u) == Running /\ u \notin d.submitted /\ d' = evdns_resolve(d, u)
Timeout(r) ==
    /\ Running /\ r \in DOMAIN d.req /\ d.req[r].timer
    /\ d' = evdns_request_timeout_callback(d, r)
Probe(s) ==
    Running /\ d.ns[s].timer /\ Upset(nameserver_send_probe(d, s))
Writable(s) ==
    /\ Running /\ d.ns[s].write_waiting /\ d.sock[s] # "full"
    /\ d' = WritableCallback(d, s)
ReadError(s) ==
    /\ Running /\ s \in Range(d.ring) /\ d.sock[s] = "error"
    /\ d' = [nameserver_failed(d, s) EXCEPT !.sock[s] = "ok"]

\* A server answers a query it got, at any time later, once or again; an
\* answer that never comes is a query or an answer lost.
Answer(m, kind) == Running /\ d' = nameserver_read(d, m, kind)

\* The kernel's answers to send and recv on a socket change.
SocketOk(s) == Running /\ d.sock[s] # "ok" /\ d' = [d EXCEPT !.sock[s] = "ok"]
SocketTrouble(s, c) ==
    /\ Running /\ s \in Range(d.ring) /\ d.sock[s] = "ok"
    /\ Upset([d EXCEPT !.sock[s] = c])

NameserverAdd(s) ==
    Running /\ s \notin Range(d.ring) /\ d' = nameserver_add(d, s)
Suspend ==
    Running /\ d.ring # <<>> /\ Upset(evdns_clear_nameservers_and_suspend(d))
Resume ==
    /\ Running /\ d.wait # <<>>
    /\ Careless \/ d.ring # <<>>
    /\ d' = evdns_requests_pump_waiting_queue(d)
SearchClear == Running /\ Upset(search_postfix_clear(d))
SearchAdd(s) == Running /\ Upset(search_postfix_add(d, s))
NdotsSet(n) ==
    Running /\ Upset(evdns_set_option(d, [name |-> "ndots", val |-> n]))
Shutdown(fail) ==
    /\ Running
    /\ Careless \/ d.head # <<>> \/ d.wait = <<>>
    /\ Upset([evdns_shutdown(d, fail) EXCEPT
                    !.discarded = IF fail THEN @ ELSE d.submitted])

Answers == \E m \in d.net, kind \in Kind : Answer(m, kind)
Callbacks ==
    \/ \E r \in Object : Timeout(r)
    \/ \E s \in Server : Probe(s) \/ Writable(s) \/ ReadError(s)
    \/ Answers
Network ==
    \/ \E s \in Server : SocketOk(s)
    \/ \E s \in Server, c \in {"full", "error"} : SocketTrouble(s, c)
Application ==
    \/ \E u \in User \ Range(OnReply) : Resolve(u)
    \/ \E s \in Server : NameserverAdd(s)
    \/ Suspend \/ Resume \/ SearchClear
    \/ \E s \in SearchDomain : SearchAdd(s)
    \/ \E n \in Ndots : NdotsSet(n)
    \/ \E fail \in BOOLEAN : Shutdown(fail)

Next == Callbacks \/ Network \/ Application
Spec == Init /\ [][Next]_vars

\* Timers fire, and a socket the kernel blocks becomes writable and is served:
\* weak fairness of both, with the state predicate for ENABLED.
TimerArmed == Running /\ \E r \in DOMAIN d.req : d.req[r].timer
SocketWaits ==
    Running /\ \E s \in Server : d.sock[s] # "ok" \/ d.ns[s].write_waiting
TimerFires   == \E r \in Object : Timeout(r)
SocketServed == \E s \in Server : SocketOk(s) \/ Writable(s)
FairSpec ==
    /\ Spec
    /\ []<>~TimerArmed \/ []<><<TimerFires>>_vars
    /\ []<>~SocketWaits \/ []<><<SocketServed>>_vars

-----------------------------------------------------------------------------
(* Properties                                                              *)

Requests == DOMAIN d.req

\* The counters that decide whether a request is sent or waits, and whether
\* there is a good nameserver, agree with the lists, whatever timeouts,
\* answers, probes and suspensions did; and every request object is on
\* exactly one list (request_finished, the pump, nameserver_failed and _up).
\* No assertion of evdns.c fails on the way and no NULL nameserver is used,
\* unless the application resumes without nameservers or shuts down while
\* everything is suspended (Careless).
RequestsAccounted ==
    /\ d.fault \notin {"assert", "abort", "null"}
    /\ Running =>
        /\ d.inflight = Len(d.head) /\ d.waiting = Len(d.wait)
        /\ Range(d.head) \cup Range(d.wait) = Requests
        /\ Len(d.head) + Len(d.wait) = Cardinality(Requests)
        /\ d.good = Cardinality(GoodAt(d))

\* A nameserver that is down will be tried again: the timer for the next
\* probe is armed, or a probe that will arm it is under way.
DownIsProbed ==
    Running =>
        \A s \in Range(d.ring) : d.ns[s].state = 0 =>
            d.ns[s].timer \/ \E r \in Requests : d.req[r].who = s


\* A search list lives as long as somebody uses it: its reference count is
\* the number of requests that search in it plus one while it is the global
\* one (search_request_new, search_try_next, search_state_decref).
SearchRefsExact ==
    Running =>
        \A i \in DOMAIN d.ss :
            d.ss[i].refcount =
                Cardinality({r \in Requests : d.req[r].search = i})
                + (IF d.global = i THEN 1 ELSE 0)

\* The nameservers were cleared and evdns_resume was not called since: queries
\* wait, and nothing is in flight that could make room for them.
Suspension ==
    d.ring = <<>> \/ ~Running \/ (d.head = <<>> /\ d.wait # <<>>)

\* Every query is answered or fails in the end, through lost datagrams,
\* time-outs, servers that go down and full sockets, if the resolver is not
\* left suspended.
QueryAnswered ==
    \A u \in User :
        (u \in d.submitted) ~>
            (d.calls[u] = 1 \/ u \in d.discarded \/ Suspension)

=============================================================================
