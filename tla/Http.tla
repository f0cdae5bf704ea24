-------------------------------- MODULE Http --------------------------------
(***************************************************************************)
(* The HTTP client and server of libevent 1.4.3 (http.c), joined by TCP    *)
(* connections: queued requests, connecting and retrying, writing, reading *)
(* and parsing of messages, chunked bodies, persistent connections and the *)
(* detection of their close, replies, time-outs and errors.                *)
(*                                                                         *)
(* One evhttp_connection is the client's, the others belong to the server, *)
(* one for each socket it accepted; both ends run the same functions, as   *)
(* in the code.  The state is one record h, a callback of libevent or an   *)
(* API call is one function of h.  A message is a sequence of tokens: its  *)
(* first line, its headers with the blank line, pieces of body, chunk-size *)
(* lines and the blank lines of the chunked coding.                        *)
(***************************************************************************)
EXTENDS Integers, Sequences, FiniteSets, SequencesExt, FiniteSetsExt

CONSTANTS
    Req,        \* the client's requests: 1..n
    Scenario,   \* records of: ask, what each request asks; next, what its
                \* callback requests next, or 0; served, the requests whose
                \* URI has a callback (evhttp_set_cb, evhttp_set_gencb)
    Style,      \* how the application replies: subset of Styles
    Socket,     \* descriptors
    RetryMax,   \* retry_max of the client's connection
    IntBits,    \* width of int
    MaxUpsets   \* bound: failing calls, frees

Styles == {"reply", "empty", "start", "error"}
CLI == 0        \* the client's connection; the server's are the sockets

ASSUME HttpAssumption ==
    /\ Req \subseteq Nat \ {0} /\ Socket \subseteq Nat \ {0}
    /\ Scenario \subseteq
         [ask : [Req -> [type : {"GET", "POST"}, minor : {0, 1}, bad : BOOLEAN,
                         conn : {"none", "close", "keep-alive"}]],
          next : [Req -> Req \cup {0}], served : SUBSET Req]
    /\ Style \subseteq Styles
    /\ RetryMax \in Int /\ IntBits \in Nat \ {0, 1} /\ MaxUpsets \in Nat

VARIABLE h
vars == <<h>>

Con == {CLI} \cup Socket

\* Tokens of a message.
First(k, r, type, m, c) ==
    [t |-> "first", kind |-> k, r |-> r, type |-> type, minor |-> m, code |-> c]
Headers(n, c, x) == [t |-> "headers", length |-> n, conn |-> c, chunked |-> x]
Data(r) == [t |-> "data", r |-> r]
Size(n) == [t |-> "size", n |-> n]
Blank   == [t |-> "blank"]

\* struct evhttp_request after evhttp_request_new.  r: whose request it is;
\* length, conn: input headers; oconn: Connection in the output headers;
\* app: what the application still owes; answer: whose answer was parsed.
evhttp_request_new(r, kind) ==
    [r |-> r, kind |-> kind, type |-> "GET", minor |-> -1, got |-> FALSE,
     bad |-> FALSE, code |-> 0, length |-> -1, conn |-> "none",
     xfer |-> FALSE, chunked |-> FALSE, ntoread |-> 0, input |-> <<>>,
     oconn |-> "none", output |-> <<>>, answer |-> 0, app |-> "none"]

\* struct evhttp_connection after evhttp_connection_new.  fd 0 is -1; ev is
\* the callback its event is set to while it is pending, evfd and close_ev
\* the descriptors of pending events.
evhttp_connection_new ==
    [alive |-> TRUE, fd |-> 0, state |-> "disconnected", ev |-> "none",
     evfd |-> 0, close_ev |-> 0, input |-> <<>>, output |-> <<>>,
     cb |-> "none", requests |-> <<>>, retry_cnt |-> 0]

NoConnection == [evhttp_connection_new EXCEPT !.alive = FALSE]
NoSocket == [up |-> <<>>, down |-> <<>>, client |-> "free", server |-> "free"]

Incoming(c) == c # CLI
FirstReq(hh, c) == Head(hh.con[c].requests)
NoRequest(hh, c) == hh.con[c].requests = <<>>
Fault(hh, f) == [hh EXCEPT !.fault = f]

SetEv(hh, c, name) ==
    [hh EXCEPT !.con[c].ev = name, !.con[c].evfd = hh.con[c].fd]
DelEv(hh, c) == [hh EXCEPT !.con[c].ev = "none", !.con[c].evfd = 0]

\* close(2) of one end of a socket; what was on its way there is lost.
Gone(n) == IF n.client # "open" /\ n.server \in {"free", "closed"} THEN NoSocket
           ELSE n
CloseFd(hh, c) ==
    LET k == hh.con[c].fd IN
    IF k = 0 THEN hh
    ELSE IF Incoming(c)
    THEN [hh EXCEPT !.net[k] = Gone([@ EXCEPT !.server = "closed", !.up = <<>>])]
    ELSE [hh EXCEPT !.net[k] =
                        Gone([@ EXCEPT !.client = "closed", !.down = <<>>])]

\* The descriptors closed at both ends and not in use by a connection of the
\* server.
Usable(hh) == {k \in Socket : ~hh.con[k].alive /\ hh.net[k] = NoSocket}

-----------------------------------------------------------------------------
(* Connections                                                             *)

\* Mutant: the descriptor stays open.
reset_unclosed(hh, c) ==
    [DelEv(hh, c) EXCEPT !.con[c].fd = 0, !.con[c].state = "disconnected"]

\* evhttp_connection_reset: neither the buffers nor close_ev are touched.
evhttp_connection_reset(hh, c) ==
    [CloseFd(DelEv(hh, c), c) EXCEPT !.con[c].fd = 0,
                                     !.con[c].state = "disconnected"]

evhttp_connection_free(hh, c) ==
    [CloseFd(hh, c) EXCEPT !.con[c] = NoConnection]

evhttp_connection_start_detectclose(hh, c) ==
    [hh EXCEPT !.con[c].close_ev = hh.con[c].fd]
evhttp_connection_stop_detectclose(hh, c) == [hh EXCEPT !.con[c].close_ev = 0]

\* evhttp_connection_connect.  bind_socket or connect(2) may fail at once:
\* then the event is not set, and the callers do not look at the result.
\* Sockets that fail later do so in evhttp_connectioncb.
evhttp_connection_connect(hh, c) ==
    IF hh.con[c].state = "connecting" THEN hh
    ELSE LET e == evhttp_connection_reset(hh, c) IN
         IF Usable(e) = {} \/ e.nobind THEN [e EXCEPT !.unreachable = TRUE]
         ELSE LET k == Min(Usable(e)) IN
              SetEv([e EXCEPT !.con[c].fd = k, !.con[c].state = "connecting",
                        !.net[k] = [NoSocket EXCEPT !.client = "open"],
                        !.unreachable = FALSE],
                    c, "connect")

\* evhttp_write_buffer: a pending write or time-out is replaced.
evhttp_write_buffer(hh, c, cb) ==
    SetEv([hh EXCEPT !.con[c].cb = cb], c, "write")

\* evhttp_make_header and _header_request: the content length is added to a
\* POST; the body follows the headers.
RequestMessage(q) ==
    <<First(IF q.bad THEN "garbage" ELSE "request", q.r, q.type, q.minor, 0),
      Headers(IF q.type = "POST" THEN Len(q.output) ELSE -1, q.oconn, FALSE)>>
    \o q.output

evhttp_is_connection_close(conn) == conn = "close"
evhttp_is_connection_keepalive(conn) == conn = "keep-alive"

\* evhttp_make_header_response: the content length is added where the
\* connection may persist; a request for a close is answered by a close.
ResponseMessage(q, chunked) ==
    <<First("response", q.r, q.type, q.minor, q.code),
      Headers(IF /\ ~chunked
                 /\ q.minor = 1 \/ evhttp_is_connection_keepalive(q.conn)
              THEN Len(q.output) ELSE -1,
              IF evhttp_is_connection_close(q.conn) THEN "close" ELSE q.oconn,
              chunked)>> \o q.output

\* evhttp_request_dispatch.  What is left in the buffers from an earlier
\* connection or response stays there (leftover records that it happened).
evhttp_request_dispatch(hh, c) ==
    IF NoRequest(hh, c) THEN hh
    ELSE LET e == evhttp_connection_stop_detectclose(hh, c)
             q == FirstReq(e, c)
         IN  IF e.con[c].state # "connected" THEN Fault(e, "assert")
             ELSE evhttp_write_buffer(
                    [e EXCEPT
                      !.con[c].output = @ \o RequestMessage(q),
                      !.leftover = \/ @ \/ e.con[c].input # <<>>
                                   \/ e.con[c].output # <<>>],
                    c, "connectioncb")

\* Mutant: on a connection in use the request is sent at once.
make_request_pipelined(hh, r) ==
    LET q == [evhttp_request_new(r, "request") EXCEPT
                 !.minor = 1, !.oconn = hh.s.ask[r].conn, !.bad = hh.s.ask[r].bad]
        e == [hh EXCEPT !.con[CLI].requests = Append(@, q),
                        !.made = @ \cup {r}]
    IN  IF e.con[CLI].state # "connected" THEN evhttp_connection_connect(e, CLI)
        ELSE evhttp_request_dispatch(e, CLI)

evhttp_make_request(hh, r) ==
    LET a == hh.s.ask[r]
        q == [evhttp_request_new(r, "request") EXCEPT
                 !.type = a.type, !.minor = a.minor, !.oconn = a.conn,
                 !.bad = a.bad,
                 !.output = IF a.type = "POST" THEN <<Data(r)>> ELSE <<>>]
        e == [hh EXCEPT !.con[CLI].requests = Append(@, q),
                        !.made = @ \cup {r}]
    IN  IF e.con[CLI].state # "connected" THEN evhttp_connection_connect(e, CLI)
        ELSE IF Len(e.con[CLI].requests) = 1 THEN evhttp_request_dispatch(e, CLI)
        ELSE e

\* The callback of a client's request: it gets the request, or NULL.
UserCallback(hh, q, how) ==
    LET e == [hh EXCEPT !.called[q.r] = Append(@,
                [how |-> how, code |-> q.code, input |-> q.input,
                 answer |-> q.answer])]
        n == hh.s.next[q.r]
    IN  IF n = 0 \/ n \in e.made \/ ~e.con[CLI].alive THEN e
        ELSE evhttp_make_request(e, n)

-----------------------------------------------------------------------------
(* Replies of the server                                                   *)

evhttp_send(hh, c, body) ==
    LET q == [FirstReq(hh, c) EXCEPT !.output = body] IN
    evhttp_write_buffer(
        [hh EXCEPT !.con[c].requests[1] = q,
                   !.con[c].output = @ \o ResponseMessage(q, FALSE)],
        c, "send_done")

\* evhttp_response_code
WithCode(hh, c, code) ==
    [hh EXCEPT !.con[c].requests[1].code = code,
               !.con[c].requests[1].kind = "response"]

\* evhttp_send_page answers in HTTP/1.1 and closes the connection.
evhttp_send_page(hh, c) ==
    evhttp_send([hh EXCEPT !.con[c].requests[1].minor = 1,
                           !.con[c].requests[1].oconn = "close",
                           !.con[c].requests[1].app = "none"],
                c, <<Data(FirstReq(hh, c).r)>>)
evhttp_send_error(hh, c, code) == evhttp_send_page(WithCode(hh, c, code), c)

evhttp_send_reply(hh, c, code, databuf) ==
    evhttp_send(
        [WithCode(evhttp_connection_start_detectclose(hh, c), c, code) EXCEPT
            !.con[c].requests[1].app = "none"],
        c, databuf)

evhttp_send_reply_start(hh, c) ==
    LET x == FirstReq(hh, c).minor = 1
        e == [WithCode(evhttp_connection_start_detectclose(hh, c), c, 200)
                EXCEPT !.con[c].requests[1].chunked = x,
                       !.con[c].requests[1].app = "started"]
    IN  evhttp_write_buffer(
            [e EXCEPT !.con[c].output = @ \o ResponseMessage(FirstReq(e, c), x)],
            c, "none")

evhttp_send_reply_chunk(hh, c) ==
    LET q == FirstReq(hh, c)
        piece == IF q.chunked THEN <<Size(1), Data(q.r), Blank>>
                 ELSE <<Data(q.r)>>
    IN  evhttp_write_buffer(
            [hh EXCEPT !.con[c].output = @ \o piece,
                       !.con[c].requests[1].app = "sent"], c, "none")

evhttp_start_read(hh, c) == SetEv(hh, c, "read_header")

\* Mutant: nothing reads the next request.
associate_unread(hh, c) ==
    [hh EXCEPT !.con[c].requests = Append(@, evhttp_request_new(0, "request"))]

evhttp_associate_new_request_with_connection(hh, c) ==
    evhttp_start_read(
        [hh EXCEPT !.con[c].requests =
                        Append(@, evhttp_request_new(0, "request"))], c)

evhttp_send_done(hh, c) ==
    LET q == FirstReq(hh, c)
        e == evhttp_connection_stop_detectclose(
                [hh EXCEPT !.con[c].requests = Tail(@)], c)
    IN  IF \/ q.minor = 0 /\ ~evhttp_is_connection_keepalive(q.conn)
           \/ evhttp_is_connection_close(q.conn)
           \/ evhttp_is_connection_close(q.oconn)
        THEN evhttp_connection_free(e, c)
        ELSE evhttp_associate_new_request_with_connection(e, c)

evhttp_send_reply_end(hh, c) ==
    LET e == [hh EXCEPT !.con[c].requests[1].app = "none"] IN
    CASE FirstReq(e, c).chunked ->
            evhttp_write_buffer(
                [e EXCEPT !.con[c].output = @ \o <<Size(0), Blank>>,
                          !.con[c].requests[1].chunked = FALSE],
                c, "send_done")
      [] ~FirstReq(e, c).chunked /\ e.con[c].ev = "none" ->
            evhttp_send_done(e, c)
      [] OTHER -> [e EXCEPT !.con[c].cb = "send_done"]

\* evhttp_handle_request and evhttp_dispatch_callback: a request without a
\* URI is answered 400, one nobody serves 404; the application's callback
\* takes the others and replies whenever it likes.
evhttp_handle_request(hh, c) ==
    CASE FirstReq(hh, c).bad -> evhttp_send_error(hh, c, 400)
      [] ~FirstReq(hh, c).bad /\ FirstReq(hh, c).r \in hh.s.served ->
            [hh EXCEPT !.con[c].requests[1].app = "owed"]
      [] OTHER -> evhttp_send_page(WithCode(hh, c, 404), c)

-----------------------------------------------------------------------------
(* The end of a request                                                    *)

evhttp_connection_fail(hh, c, error) ==
    CASE NoRequest(hh, c) -> Fault(hh, "assert")
      [] ~NoRequest(hh, c) /\ Incoming(c) ->
            \* evhttp_connection_incoming_fail
            IF error \in {"timeout", "eof"} THEN evhttp_connection_free(hh, c)
            ELSE evhttp_handle_request(
                    [hh EXCEPT !.con[c].requests[1].bad = TRUE], c)
      [] OTHER ->
            LET q == FirstReq(hh, c)
                e == evhttp_connection_reset(
                        [hh EXCEPT !.con[c].requests = Tail(@)], c)
                f == IF NoRequest(e, c) THEN e
                     ELSE evhttp_connection_connect(e, c)
            IN  UserCallback(f, q, "null")

\* evhttp_connection_done: the next request goes out before the callback of
\* the finished one runs.
evhttp_connection_done(hh, c) ==
    IF Incoming(c) THEN evhttp_handle_request(hh, c)
    ELSE LET q == FirstReq(hh, c)
             e == [hh EXCEPT !.con[c].requests = Tail(@)]
             need_close == \/ evhttp_is_connection_close(q.conn)
                           \/ evhttp_is_connection_close(q.oconn)
             f == IF need_close THEN evhttp_connection_reset(e, c) ELSE e
             g == CASE ~NoRequest(f, c) ->
                         IF f.con[c].state # "connected"
                         THEN evhttp_connection_connect(f, c)
                         ELSE evhttp_request_dispatch(f, c)
                    [] NoRequest(f, c) /\ ~need_close ->
                         evhttp_connection_start_detectclose(f, c)
                    [] OTHER -> f
         IN  UserCallback(g, q, "request")

-----------------------------------------------------------------------------
(* Reading                                                                 *)

\* One line in evhttp_parse_lines; acc.res as it returns.  Data without a
\* line end in front of a line spoils it.
ParseLine(acc, t) ==
    CASE acc.res # 0 -> [acc EXCEPT !.rest = Append(@, t)]
      [] acc.res = 0 /\ t.t = "data" -> [acc EXCEPT !.rest = Append(@, t)]
      [] acc.res = 0 /\ t.t # "data" /\ acc.rest # <<>> ->
            [acc EXCEPT !.res = -1, !.rest = <<>>]
      [] acc.res = 0 /\ acc.rest = <<>> /\ t.t = "blank" ->
            [acc EXCEPT !.res = 1]
      [] /\ acc.res = 0 /\ acc.rest = <<>> /\ t.t = "first"
         /\ ~acc.q.got /\ t.kind = acc.q.kind ->
            \* evhttp_parse_request_line, evhttp_parse_response_line
            [acc EXCEPT !.q.got = TRUE, !.q.minor = t.minor, !.q.code = t.code,
                        !.q.answer = t.r,
                        !.q.r = IF t.kind = "request" THEN t.r ELSE @,
                        !.q.type = IF t.kind = "request" THEN t.type ELSE @]
      [] acc.res = 0 /\ acc.rest = <<>> /\ t.t = "headers" /\ acc.q.got ->
            [acc EXCEPT !.res = 1, !.q.length = t.length, !.q.conn = t.conn,
                        !.q.xfer = t.chunked]
      [] OTHER ->
            [acc EXCEPT !.res = -1,
                        !.q.r = IF t.t = "first" /\ @ = 0 THEN t.r ELSE @]

evhttp_parse_lines(q, buf) ==
    FoldLeft(ParseLine, [res |-> 0, q |-> q, rest |-> <<>>], buf)

\* One round of the loop of evhttp_handle_chunked_read; res 2: go on.
\* The blank line behind the last chunk is not read.
ReadChunk(acc, t) ==
    CASE acc.res # 2 -> [acc EXCEPT !.rest = Append(@, t)]
      [] acc.res = 2 /\ acc.q.ntoread > 0 ->
            [acc EXCEPT !.q.input = Append(@, t), !.q.ntoread = -1]
      [] acc.res = 2 /\ acc.q.ntoread < 0 /\ t.t = "data" ->
            [acc EXCEPT !.rest = Append(@, t)]
      [] /\ acc.res = 2 /\ acc.q.ntoread < 0 /\ acc.rest = <<>>
         /\ t.t = "size" ->
            [acc EXCEPT !.q.ntoread = t.n, !.res = IF t.n = 0 THEN 1 ELSE 2]
      [] /\ acc.res = 2 /\ acc.q.ntoread < 0 /\ acc.rest = <<>>
         /\ t.t = "blank" -> acc
      [] OTHER -> [acc EXCEPT !.res = -1]

evhttp_handle_chunked_read(q, buf) ==
    FoldLeft(ReadChunk, [res |-> 2, q |-> q, rest |-> <<>>], buf)

evhttp_read_body(hh, c) ==
    LET q   == FirstReq(hh, c)
        buf == hh.con[c].input
        Keep(qq, rest) == [hh EXCEPT !.con[c].requests[1] = qq,
                                     !.con[c].input = rest]
    IN  CASE q.chunked ->
               LET a == evhttp_handle_chunked_read(q, buf)
                   e == Keep(a.q, a.rest)
               IN  CASE a.res = 1  -> evhttp_connection_done(e, c)
                     [] a.res = -1 -> evhttp_connection_fail(e, c, "invalid")
                     [] OTHER      -> SetEv(e, c, "read")
          [] ~q.chunked /\ q.ntoread < 0 ->
               SetEv(Keep([q EXCEPT !.input = @ \o buf], <<>>), c, "read")
          [] ~q.chunked /\ q.ntoread >= 0 /\ Len(buf) >= q.ntoread ->
               evhttp_connection_done(
                 Keep([q EXCEPT !.input = @ \o SubSeq(buf, 1, q.ntoread),
                                !.ntoread = 0],
                      SubSeq(buf, q.ntoread + 1, Len(buf))), c)
          [] OTHER -> SetEv(hh, c, "read")

\* evhttp_get_body and evhttp_get_body_length.
evhttp_get_body(hh, c) ==
    LET q == FirstReq(hh, c)
        e == [hh EXCEPT !.con[c].requests[1].chunked = q.xfer,
                        !.con[c].requests[1].ntoread =
                                IF q.xfer THEN -1 ELSE q.length]
    IN  CASE q.kind = "request" /\ q.type # "POST" ->
               evhttp_connection_done(hh, c)
          [] /\ ~(q.kind = "request" /\ q.type # "POST")
             /\ ~q.xfer /\ q.length = -1 /\ q.conn = "keep-alive" ->
               evhttp_connection_fail(hh, c, "invalid")
          [] OTHER -> evhttp_read_body(e, c)

HeaderRead(hh, c) ==
    LET a == evhttp_parse_lines(FirstReq(hh, c), hh.con[c].input)
        e == [hh EXCEPT !.con[c].requests[1] = a.q, !.con[c].input = a.rest]
    IN  CASE a.res = -1 -> evhttp_connection_fail(e, c, "invalid")
          [] a.res = 0  -> SetEv(e, c, "read_header")
          [] a.res = 1 /\ a.q.kind = "response" /\ a.q.code = 204 ->
                evhttp_connection_done(e, c)
          [] OTHER      -> evhttp_get_body(e, c)

-----------------------------------------------------------------------------
(* Callbacks of events.  libevent has taken a fired event off its lists.   *)

Pipe(hh, c) == LET k == hh.con[c].fd IN
               IF Incoming(c) THEN hh.net[k].up ELSE hh.net[k].down
PeerClosed(hh, c) ==
    LET k == hh.con[c].fd IN
    IF Incoming(c) THEN hh.net[k].client = "closed"
    ELSE hh.net[k].server = "closed"
Readable(hh, c) == Pipe(hh, c) # <<>> \/ PeerClosed(hh, c)

\* What evbuffer_read may return when the socket is readable.
ReadResults(hh, c) ==
    (IF Pipe(hh, c) # <<>> THEN {"data"} ELSE {"eof"})
    \cup (IF PeerClosed(hh, c) THEN {"error"} ELSE {})

\* evbuffer_read: all there is goes to the input buffer.
Filled(hh, c) ==
    LET e == [hh EXCEPT !.con[c].input = @ \o Pipe(hh, c)] IN
    IF Incoming(c) THEN [e EXCEPT !.net[hh.con[c].fd].up = <<>>]
    ELSE [e EXCEPT !.net[hh.con[c].fd].down = <<>>]

evhttp_read_header(hh, c, n) ==
    LET e == DelEv(hh, c) IN
    IF n # "data" THEN evhttp_connection_fail(e, c, "eof")
    ELSE HeaderRead(Filled(e, c), c)

evhttp_read(hh, c, n) ==
    LET e == DelEv(hh, c) IN
    CASE n = "error" -> evhttp_connection_fail(e, c, "eof")
      [] n = "eof"   -> evhttp_connection_done(e, c)
      [] OTHER       -> evhttp_read_body(Filled(e, c), c)

evhttp_write_connectioncb(hh, c) ==
    IF NoRequest(hh, c) THEN Fault(hh, "assert")
    ELSE evhttp_start_read([hh EXCEPT !.con[c].requests[1].kind = "response"], c)

\* evhttp_write: the kernel takes n tokens, 0 is an error.
evhttp_write(hh, c, n) ==
    LET e    == DelEv(hh, c)
        out  == hh.con[c].output
        k    == hh.con[c].fd
        part == SubSeq(out, 1, n)
        f    == [e EXCEPT !.con[c].output = SubSeq(out, n + 1, Len(out)),
                    !.net[k].up =
                        IF Incoming(c) \/ PeerClosed(hh, c) THEN @ ELSE @ \o part,
                    !.net[k].down =
                        IF Incoming(c) /\ ~PeerClosed(hh, c) THEN @ \o part ELSE @]
    IN  CASE n = 0 -> evhttp_connection_fail(e, c, "eof")
          [] n > 0 /\ n < Len(out) -> SetEv(f, c, "write")
          [] n = Len(out) /\ f.con[c].cb = "connectioncb" ->
               evhttp_write_connectioncb(f, c)
          [] n = Len(out) /\ f.con[c].cb = "send_done" -> evhttp_send_done(f, c)
          [] OTHER -> f

\* 2 << n as an int of IntBits bits is zero; the processor takes the shift
\* count modulo the width.  evhttp_add_event takes a time-out of zero for
\* none, and a timer event without one is never added.
ShiftIsZero(n) == n % IntBits = IntBits - 1

\* Mutant: the timer of the retry is not armed at the last attempt.
retry_unarmed(hh, c) ==
    [DelEv(hh, c) EXCEPT !.con[c].retry_cnt = @ + 1]

RetryLater(hh, c) ==
    LET e == [DelEv(hh, c) EXCEPT !.con[c].retry_cnt = @ + 1] IN
    IF ShiftIsZero(hh.con[c].retry_cnt) THEN e
    ELSE [e EXCEPT !.con[c].ev = "retry"]

\* Mutant: the requests are freed, nobody is told.
fail_silently(hh, c) ==
    IF NoRequest(hh, c) THEN hh ELSE [hh EXCEPT !.con[c].requests = Tail(@)]

FailFirst(hh, c) ==
    IF NoRequest(hh, c) THEN hh
    ELSE UserCallback([hh EXCEPT !.con[c].requests = Tail(@)],
                      FirstReq(hh, c), "request")

\* evhttp_connectioncb
evhttp_connectioncb(hh, c, ok) ==
    LET e == DelEv(hh, c)
        n == e.con[c].retry_cnt
        k == e.con[c].fd
    IN  CASE ok ->
               evhttp_request_dispatch(
                 [e EXCEPT !.con[c].retry_cnt = 0, !.con[c].state = "connected",
                           !.net[k].server = "backlog"], c)
          [] ~ok /\ (RetryMax < 0 \/ n < RetryMax) -> RetryLater(e, c)
          [] OTHER ->
               FoldLeft(LAMBDA x, r : FailFirst(x, c),
                        evhttp_connection_reset(e, c), SetToSeq(Req))

evhttp_connection_retry(hh, c) ==
    evhttp_connection_connect(
        [DelEv(hh, c) EXCEPT !.con[c].state = "disconnected"], c)

evhttp_detect_close_cb(hh, c) ==
    evhttp_connection_reset([hh EXCEPT !.con[c].close_ev = 0], c)

\* accept_socket, evhttp_get_request, evhttp_get_request_connection
accept_socket(hh, k) ==
    evhttp_associate_new_request_with_connection(
        [hh EXCEPT !.net[k].server = "open",
                   !.con[k] = [evhttp_connection_new EXCEPT
                                    !.state = "connected", !.fd = k]], k)

\* evhttp_free
Stopped(hh) ==
    [FoldLeft(LAMBDA x, k : IF x.con[k].alive THEN evhttp_connection_free(x, k)
                            ELSE x, hh, SetToSeq(Socket))
        EXCEPT !.listening = FALSE,
               !.net = [k \in Socket |->
                    IF hh.net[k].server \in {"backlog", "open"}
                    THEN Gone([hh.net[k] EXCEPT !.server = "closed", !.up = <<>>])
                    ELSE hh.net[k]]]

-----------------------------------------------------------------------------
(* The program and its environment                                         *)

Init == \E s \in Scenario :
    h = [s |-> s,
         con |-> [c \in Con |-> IF c = CLI THEN evhttp_connection_new
                               ELSE NoConnection],
         net |-> [k \in Socket |-> NoSocket],
         listening |-> TRUE,
         nobind |-> FALSE,          \* bind and connect fail at once
         unreachable |-> FALSE,     \* they did so last time
         leftover |-> FALSE, made |-> {}, called |-> [r \in Req |-> <<>>],
         upsets |-> 0, fault |-> "none"]

Running == h.fault = "none"
Pending(c, name) == Running /\ h.con[c].ev = name
Upset(e) == h.upsets < MaxUpsets /\ h' = [e EXCEPT !.upsets = @ + 1]

Connect(ok) ==
    /\ Pending(CLI, "connect") /\ (ok => h.listening)
    /\ h' = evhttp_connectioncb(h, CLI, ok)
Retry == Pending(CLI, "retry") /\ h' = evhttp_connection_retry(h, CLI)
ReadHeader(c) ==
    /\ Pending(c, "read_header") /\ Readable(h, c)
    /\ \E n \in ReadResults(h, c) : h' = evhttp_read_header(h, c, n)
Read(c) ==
    /\ Pending(c, "read") /\ Readable(h, c)
    /\ \E n \in ReadResults(h, c) : h' = evhttp_read(h, c, n)
Write(c) ==
    /\ Pending(c, "write")
    /\ \E n \in {1, Len(h.con[c].output)}
                \cup (IF PeerClosed(h, c) THEN {0} ELSE {}) :
            h' = evhttp_write(h, c, n)
Timeout(c) ==
    /\ \E name \in {"read_header", "read", "write"} : Pending(c, name)
    /\ h' = evhttp_connection_fail(DelEv(h, c), c, "timeout")
DetectClose(c) ==
    /\ Running /\ h.con[c].close_ev # 0 /\ h.con[c].fd # 0
    /\ Readable(h, c)
    /\ h' = evhttp_detect_close_cb(h, c)
Accept(k) ==
    /\ Running /\ h.listening /\ h.net[k].server = "backlog"
    /\ h' = accept_socket(h, k)

\* The applications.  The server's does not use a request after the close
\* callback told it that the connection is gone.
Owes(k, what) ==
    /\ Running /\ h.con[k].fd # 0 /\ h.con[k].requests # <<>>
    /\ FirstReq(h, k).app = what
SendReply(k) ==
    /\ Owes(k, "owed")
    /\ \/ "reply" \in Style /\ h' = evhttp_send_reply(h, k, 200,
                                            <<Data(FirstReq(h, k).r)>>)
       \/ "empty" \in Style /\ h' = evhttp_send_reply(h, k, 204, <<>>)
SendError(k) ==
    Owes(k, "owed") /\ "error" \in Style /\ h' = evhttp_send_error(h, k, 503)
SendReplyStart(k) ==
    Owes(k, "owed") /\ "start" \in Style /\ h' = evhttp_send_reply_start(h, k)
SendReplyChunk(k) ==
    Owes(k, "started") /\ h' = evhttp_send_reply_chunk(h, k)
SendReplyEnd(k) == Owes(k, "sent") /\ h' = evhttp_send_reply_end(h, k)

MakeRequest(r) ==
    /\ Running /\ h.con[CLI].alive /\ r \notin h.made
    /\ r \notin Range(h.s.next)
    /\ \A x \in Req : x < r /\ x \notin Range(h.s.next) => x \in h.made
    /\ h' = evhttp_make_request(h, r)
ConnectionFree ==
    /\ Running /\ h.con[CLI].alive /\ h.made # {}
    /\ Upset(evhttp_connection_free(h, CLI))
ServerFree ==
    /\ Running /\ h.listening /\ h.made # {}
    /\ \A k \in Socket : h.con[k].requests # <<>> => FirstReq(h, k).app = "none"
    /\ Upset(Stopped(h))
NetworkDown == Running /\ ~h.nobind /\ Upset([h EXCEPT !.nobind = TRUE])
NetworkUp   == Running /\ h.nobind /\ h' = [h EXCEPT !.nobind = FALSE]

Callbacks(c) == ReadHeader(c) \/ Read(c) \/ Write(c) \/ Timeout(c)
ClientEvent == (\E ok \in BOOLEAN : Connect(ok)) \/ Retry \/ Callbacks(CLI)
Application(k) ==
    \/ SendReply(k) \/ SendError(k)
    \/ SendReplyStart(k) \/ SendReplyChunk(k) \/ SendReplyEnd(k)
Next ==
    \/ ClientEvent
    \/ \E k \in Socket : Callbacks(k) \/ Accept(k) \/ Application(k)
    \/ \E c \in Con : DetectClose(c)
    \/ \E r \in Req : MakeRequest(r)
    \/ ConnectionFree \/ ServerFree \/ NetworkDown \/ NetworkUp
Spec == Init /\ [][Next]_vars

\* libevent runs the client's events: each of them can at least time out.
ClientWaits == Running /\ h.con[CLI].ev # "none"
FairSpec == Spec /\ ([]<>~ClientWaits \/ []<><<ClientEvent>>_vars)

-----------------------------------------------------------------------------
(* Properties                                                              *)

Client == h.con[CLI]
Queued(r) == {i \in DOMAIN Client.requests : Client.requests[i].r = r}

\* A request the client made is on the connection's queue exactly once, or
\* its callback was called exactly once, or the application freed the
\* connection under it: never two of these (evhttp_connection_done and _fail,
\* evhttp_connectioncb).
RequestEndsOnce ==
    Running => \A r \in h.made :
        \/ Cardinality(Queued(r)) + Len(h.called[r]) = 1
        \/ ~Client.alive /\ h.called[r] = <<>>

\* The ends of the sockets that are open are the ones the connections know: no
\* reset, retry or free leaks a descriptor or closes one in use; no event is
\* left pending on a descriptor its connection does not use any more
\* (evhttp_connection_reset deletes ev, but not close_ev); and the assertions
\* of http.c hold.
ConnectionsSound ==
    /\ h.fault = "none"
    /\ Running =>
        /\ \A k \in Socket :
              /\ h.net[k].client = "open" <=> Client.fd = k
              /\ h.net[k].server = "open" <=> h.con[k].fd = k
        /\ \A c \in Con :
              /\ h.con[c].evfd # 0 => h.con[c].evfd = h.con[c].fd
              /\ h.con[c].close_ev # 0 => h.con[c].close_ev = h.con[c].fd

\* The server attends to each socket it holds: it waits for the peer, for
\* the peer's close, or for its application to reply.
ServerAttends ==
    Running => \A k \in Socket : h.con[k].fd # 0 =>
        \/ h.con[k].ev # "none" \/ h.con[k].close_ev # 0
        \/ h.con[k].requests # <<>> /\ FirstReq(h, k).app # "none"

\* What an answered request is given is the answer to itself.
OwnAnswer ==
    \A r \in Req : \A i \in DOMAIN h.called[r] :
        LET a == h.called[r][i] IN
        a.how = "request" /\ a.code # 0 =>
            a.answer = r /\ Range(a.input) \subseteq {Data(r)}

\* A request is given the answer to another one, or pieces of it, only if the
\* buffers of the connection held leftovers when a request was sent:
\* evhttp_connection_reset does not empty them, and the line behind the last
\* chunk of an answer stays in the input buffer.
OwnAnswerIfClean == ~h.leftover => OwnAnswer

\* Every request ends: its callback is called, unless the connection is freed
\* or reconnecting failed at once.
RequestEnds ==
    \A r \in Req : (r \in h.made) ~>
        (h.called[r] # <<>> \/ ~Client.alive \/ h.unreachable)

=============================================================================
