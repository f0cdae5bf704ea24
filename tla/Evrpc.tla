-------------------------------- MODULE Evrpc --------------------------------
(***************************************************************************)
(* The RPC layer of libevent 1.4.3 (evrpc.c): a pool of HTTP connections   *)
(* with its queue of RPCs, their time-outs and hooks, and the server that  *)
(* unpacks a request, hands it to the application and sends the reply.     *)
(*                                                                         *)
(* The HTTP connections below (module Http has them in detail) are reduced *)
(* to what evrpc.c sees of them: the queue of requests, whether they are   *)
(* connected, and the ways a request ends.  The state is one record s, an  *)
(* API call or a callback is one function of s.                            *)
(***************************************************************************)
EXTENDS Integers, Sequences, FiniteSets, SequencesExt, FiniteSetsExt

CONSTANTS
    Rpc,        \* the RPCs the client makes: 1..n
    Con,        \* connections the application may add to the pool
    Timed,      \* TRUE: evrpc_pool_set_timeout with a positive time-out
    Refusals,   \* subset of BOOLEAN: does connect fail at once
    Careless,   \* TRUE: unregisters and frees while RPCs are ongoing
    MaxUpsets   \* bound: rejecting hooks, bad payloads, failed connections,
                \* unregistrations and frees

ASSUME EvrpcAssumption ==
    /\ Rpc \subseteq Nat \ {0} /\ 0 \notin Con
    /\ Timed \in BOOLEAN /\ Refusals \subseteq BOOLEAN /\ Careless \in BOOLEAN
    /\ MaxUpsets \in Nat

VARIABLE s
vars == <<s>>

Fault(ss, f) == IF ss.fault = "none" THEN [ss EXCEPT !.fault = f] ELSE ss

-----------------------------------------------------------------------------
(* The HTTP connections, as http.c treats them                             *)

evhttp_connection_connect(ss, c) ==
    IF ss.con[c].state = "connecting" THEN ss
    ELSE [ss EXCEPT !.con[c].state =
                        IF ss.refuses THEN "disconnected" ELSE "connecting"]

\* evhttp_make_request fails when the connection cannot be started; the
\* request is on its queue all the same.
evhttp_make_request(ss, c, i) ==
    LET e == [ss EXCEPT !.con[c].requests = Append(@, i)] IN
    IF e.con[c].state = "connected" THEN e ELSE evhttp_connection_connect(e, c)
MadeRequest(ss, c, i) == evhttp_make_request(ss, c, i).con[c].state # "disconnected"

-----------------------------------------------------------------------------
(* The client                                                              *)

evrpc_pool_find_connection(ss) ==
    SelectSeq(ss.pool, LAMBDA c : ss.con[c].requests = <<>>)

\* The user's callback, and evrpc_request_wrapper_free: the pending time-out
\* of a freed wrapper is left where it is.
Finish(ss, i, status) ==
    [ss EXCEPT !.called[i] = Append(@, status), !.ctx[i] = "freed"]

\* Mutant: a request that could not be started is put back on the queue, and
\* its callback called all the same.
unstarted_requeued(ss, i) ==
    [Finish(ss, i, "unstarted") EXCEPT !.requests = Append(@, i),
                                       !.unstarted = TRUE]

\* The error exit of evrpc_schedule_request.
Unstarted(ss, i) == [Finish(ss, i, "unstarted") EXCEPT !.unstarted = TRUE]

\* evrpc_schedule_request.  rejects: the output hooks fail.
evrpc_schedule_request(ss, c, i) ==
    LET e == [ss EXCEPT !.evcon[i] = c, !.ctx[i] = "sent"]
        f == [e EXCEPT !.timer[i] = Timed]
        g == evhttp_make_request(f, c, i)
    IN  CASE ss.rejects = "out"  -> Unstarted([e EXCEPT !.rejects = "none"], i)
          [] ss.rejects # "out" /\ ~MadeRequest(f, c, i) -> Unstarted(g, i)
          [] OTHER -> g

\* Mutant: any connection will do.
pool_schedule_anywhere(ss) ==
    IF ss.requests = <<>> THEN ss
    ELSE evrpc_schedule_request([ss EXCEPT !.requests = Tail(@)],
                                Head(ss.pool), Head(ss.requests))

\* evrpc_pool_schedule: one request is scheduled, whether or not it starts.
evrpc_pool_schedule(ss) ==
    LET free == evrpc_pool_find_connection(ss) IN
    IF ss.requests = <<>> \/ free = <<>> THEN ss
    ELSE evrpc_schedule_request([ss EXCEPT !.requests = Tail(@)],
                                Head(free), Head(ss.requests))

\* evrpc_make_request (and the generated evrpc_send_request_NAME).
evrpc_make_request(ss, i) ==
    IF ss.pool = <<>> THEN Fault(ss, "assert")
    ELSE evrpc_pool_schedule(
            [ss EXCEPT !.requests = Append(@, i), !.ctx[i] = "queued"])

evrpc_pool_add_connection(ss, c) ==
    LET e == [ss EXCEPT !.pool = Append(@, c)] IN
    IF e.requests = <<>> THEN e
    ELSE evrpc_schedule_request([e EXCEPT !.requests = Tail(@)], c,
                                Head(e.requests))

\* Mutant: the time-out of an answered RPC is not cancelled.
reply_done_uncancelled(ss, i, reply) ==
    IF ss.ctx[i] = "freed" THEN Fault(ss, "freed")
    ELSE evrpc_pool_schedule(Finish(ss, i, "none"))

\* Mutant: nothing more is scheduled after an answer.
reply_done_resting(ss, i, reply) ==
    IF ss.ctx[i] = "freed" THEN Fault(ss, "freed")
    ELSE Finish([ss EXCEPT !.timer[i] = FALSE], i, "none")

\* evrpc_reply_done.  reply: "null", or what the HTTP answer contains.
evrpc_reply_done(ss, i, reply) ==
    IF ss.ctx[i] = "freed" THEN Fault(ss, "freed")
    ELSE LET e == [ss EXCEPT !.timer[i] = FALSE,
                             !.rejects = IF reply # "null" /\ @ = "in"
                                         THEN "none" ELSE @]
             status == CASE reply = "null" -> "timeout"
                         [] reply # "null" /\ ss.rejects = "in" -> "hookaborted"
                         [] reply = "ok" /\ ss.rejects # "in" -> "none"
                         [] OTHER -> "badpayload"
         IN  evrpc_pool_schedule(Finish(e, i, status))

\* A request is answered (evhttp_connection_done).
Answered(ss, c, reply) ==
    evrpc_reply_done([ss EXCEPT !.con[c].requests = Tail(@)],
                     Head(ss.con[c].requests), reply)

\* evhttp_connection_fail: the first request of the connection is given up,
\* whosever it is.
evhttp_connection_fail(ss, c) ==
    IF ss.con[c].requests = <<>> THEN Fault(ss, "assert")
    ELSE LET e == [ss EXCEPT !.con[c].requests = Tail(@),
                             !.con[c].state = "disconnected"]
             f == IF e.con[c].requests = <<>> THEN e
                  ELSE evhttp_connection_connect(e, c)
         IN  evrpc_reply_done(f, Head(ss.con[c].requests), "null")

\* evhttp_connectioncb gives up connecting: each request's callback is called
\* with the request, also those scheduled by the callbacks before.
ConnectionFailed(ss, c) ==
    FoldLeft(LAMBDA x, i : IF x.con[c].requests = <<>> THEN x
                           ELSE Answered(x, c, "empty"),
             [ss EXCEPT !.con[c].state = "disconnected"], SetToSeq(Rpc))

evrpc_request_timeout(ss, i) ==
    IF ss.ctx[i] = "freed" THEN Fault(ss, "freed")
    ELSE evhttp_connection_fail([ss EXCEPT !.timer[i] = FALSE], ss.evcon[i])

\* evrpc_pool_free: the RPCs on the queue and on the connections end without
\* a callback, the time-outs of those on connections stay.
PoolFreed(ss) ==
    [ss EXCEPT !.requests = <<>>, !.pool = <<>>, !.freed = TRUE,
               !.con = [c \in Con |-> [requests |-> <<>>, state |-> "disconnected"]],
               !.ctx = [i \in Rpc |-> IF ss.ctx[i] = "queued" THEN "freed"
                                      ELSE ss.ctx[i]]]

-----------------------------------------------------------------------------
(* The server                                                              *)

\* evhttp_send_reply and evhttp_send_error of the HTTP server.
Replied(ss, i, what) == [ss EXCEPT !.replies[i] = Append(@, what)]

\* evrpc_request_cb.  well: the request can be unpacked.
evrpc_request_cb(ss, i, well) ==
    IF ss.rejects = "server in" \/ ~well
    THEN Replied([ss EXCEPT !.rejects = IF @ = "server in" THEN "none" ELSE @],
                 i, "error")
    ELSE [ss EXCEPT !.states = @ \cup {i}]

\* evrpc_request_done and evrpc_reqstate_free.
evrpc_request_done(ss, i, complete) ==
    LET e == [ss EXCEPT !.states = @ \ {i}] IN
    CASE ~ss.registered -> Fault(ss, "freed")
      [] ss.registered /\ ~complete -> Replied(e, i, "error")
      [] ss.registered /\ complete /\ ss.rejects = "server out" ->
            Replied([e EXCEPT !.rejects = "none"], i, "error")
      [] OTHER -> Replied(e, i, "ok")

\* evhttp_handle_request: 404 when the RPC is not registered.
Arrive(ss, i, well) ==
    LET e == [ss EXCEPT !.arrived = @ \cup {i}] IN
    IF ss.registered THEN evrpc_request_cb(e, i, well)
    ELSE Replied(e, i, "error")

-----------------------------------------------------------------------------
(* The program                                                             *)

Init == \E refuses \in Refusals :
    s = [pool |-> <<>>, requests |-> <<>>,    \* struct evrpc_pool
         con |-> [c \in Con |-> [requests |-> <<>>, state |-> "disconnected"]],
         ctx |-> [i \in Rpc |-> "new"],       \* struct evrpc_request_wrapper
         evcon |-> [i \in Rpc |-> 0], timer |-> [i \in Rpc |-> FALSE],
         called |-> [i \in Rpc |-> <<>>],     \* statuses given to callbacks
         registered |-> TRUE, arrived |-> {}, \* server: RPC, requests seen,
         states |-> {},                       \* struct evrpc_req_generic,
         replies |-> [i \in Rpc |-> <<>>],    \* HTTP replies
         rejects |-> "none",                  \* which hook fails next
         refuses |-> refuses,
         unstarted |-> FALSE, freed |-> FALSE, upsets |-> 0, fault |-> "none"]

Running == s.fault = "none"
Upset(e) == s.upsets < MaxUpsets /\ s' = [e EXCEPT !.upsets = @ + 1]

AddConnection(c) ==
    Running /\ ~s.freed /\ c \notin Range(s.pool)
    /\ s' = evrpc_pool_add_connection(s, c)
MakeRequest(i) ==
    /\ Running /\ ~s.freed /\ s.pool # <<>> /\ s.ctx[i] = "new"
    /\ s' = evrpc_make_request(s, i)
PoolFree ==
    /\ Running /\ ~s.freed
    /\ Careless \/ \A i \in Rpc : s.ctx[i] # "sent"
    /\ Upset(PoolFreed(s))
RpcTimeout(i) ==
    Running /\ s.timer[i] /\ s' = evrpc_request_timeout(s, i)

Connected(c) ==
    /\ Running /\ s.con[c].state = "connecting"
    /\ s' = [s EXCEPT !.con[c].state = "connected"]
ConnectFails(c) ==
    /\ Running /\ s.con[c].state = "connecting"
    /\ Upset(ConnectionFailed(s, c))
\* The request is lost, or the connection breaks or times out.
HttpFails(c) ==
    /\ Running /\ s.con[c].state = "connected" /\ s.con[c].requests # <<>>
    /\ s' = evhttp_connection_fail(s, c)
\* The server closes an idle connection (evhttp_detect_close_cb).
IdleClosed(c) ==
    /\ Running /\ s.con[c].state = "connected" /\ s.con[c].requests = <<>>
    /\ s' = [s EXCEPT !.con[c].state = "disconnected"]
Delivered(c, well) ==
    /\ Running /\ s.con[c].state = "connected" /\ s.con[c].requests # <<>>
    /\ Head(s.con[c].requests) \notin s.arrived
    /\ IF well THEN s' = Arrive(s, Head(s.con[c].requests), TRUE)
       ELSE Upset(Arrive(s, Head(s.con[c].requests), FALSE))
RequestDone(i, complete) ==
    /\ Running /\ i \in s.states
    /\ IF complete THEN s' = evrpc_request_done(s, i, TRUE)
       ELSE Upset(evrpc_request_done(s, i, FALSE))
ReplyArrives(c) ==
    /\ Running /\ s.con[c].state = "connected" /\ s.con[c].requests # <<>>
    /\ s.replies[Head(s.con[c].requests)] # <<>>
    /\ s' = Answered(s, c, Head(s.replies[Head(s.con[c].requests)]))

\* evrpc_unregister_rpc and evrpc_register_rpc of the application.
Unregister ==
    /\ Running /\ s.registered /\ (Careless \/ s.states = {})
    /\ Upset([s EXCEPT !.registered = FALSE])
Register == Running /\ ~s.registered /\ s' = [s EXCEPT !.registered = TRUE]
\* A hook added with evrpc_add_hook that rejects the next message.
HookRejects(where) ==
    /\ Running /\ s.rejects = "none" /\ Upset([s EXCEPT !.rejects = where])

Client ==
    \/ \E c \in Con : AddConnection(c)
    \/ \E i \in Rpc : MakeRequest(i) \/ RpcTimeout(i)
    \/ PoolFree
Http ==
    \E c \in Con : \/ Connected(c) \/ ConnectFails(c) \/ HttpFails(c)
                   \/ IdleClosed(c) \/ ReplyArrives(c)
                   \/ \E well \in BOOLEAN : Delivered(c, well)
Server ==
    \/ \E i \in Rpc, complete \in BOOLEAN : RequestDone(i, complete)
    \/ Unregister \/ Register
Hooks == \E where \in {"out", "in", "server in", "server out"} : HookRejects(where)
Next == Client \/ Http \/ Server \/ Hooks
Spec == Init /\ [][Next]_vars

\* The HTTP layer ends every request it has: each of its events has a
\* time-out (module Http, RequestEnds).
HttpBusy == Running /\ \E c \in Con : s.con[c].state # "disconnected"
                                      /\ s.con[c].requests # <<>>
HttpWorks == \E c \in Con : \/ Connected(c) \/ ConnectFails(c) \/ HttpFails(c)
                            \/ ReplyArrives(c)
FairSpec == Spec /\ ([]<>~HttpBusy \/ []<><<HttpWorks>>_vars)

-----------------------------------------------------------------------------
(* Properties                                                              *)

Waiting(i) == {k \in DOMAIN s.requests : s.requests[k] = i}
Carried(i) == {<<c, k>> \in Con \X (1..Cardinality(Rpc)) :
                    k <= Len(s.con[c].requests) /\ s.con[c].requests[k] = i}

\* An RPC is in one place only: on the pool's queue, on one connection, or
\* over with its callback called exactly once - also when a hook rejects it,
\* the connection fails or the RPC times out - unless the pool was freed.
\* And at the server a request that came is answered exactly once, or the
\* application still has it.
RpcEndsOnce ==
    Running =>
        /\ \A i \in Rpc : s.ctx[i] # "new" =>
              \/ Cardinality(Waiting(i)) + Cardinality(Carried(i))
                    + Len(s.called[i]) = 1
              \/ s.freed /\ Carried(i) = {} /\ s.called[i] = <<>>
        /\ \A i \in s.arrived :
              Len(s.replies[i]) + (IF i \in s.states THEN 1 ELSE 0) = 1

\* The time-out of an RPC fails the first request of its connection
\* (evrpc_request_timeout): that is the RPC's own one.
TimeoutHitsOwn ==
    Running => \A i \in Rpc : s.timer[i] =>
        /\ s.con[s.evcon[i]].requests # <<>>
        /\ Head(s.con[s.evcon[i]].requests) = i

\* No request wrapper, connection or registered RPC is used after it was
\* freed and no assertion fails, as long as connecting does not fail at once
\* and the application does not free what is in use.
NoUseAfterFree == s.fault = "none"

\* Every RPC ends, unless one before it could not be started, or the pool is
\* freed.
RpcEnds ==
    \A i \in Rpc : (s.ctx[i] # "new") ~>
        (s.called[i] # <<>> \/ s.unstarted \/ s.freed)

=============================================================================
