------------------------------- MODULE Codecs -------------------------------
(***************************************************************************)
(* The two wire formats of libevent 1.4.3 at work.  A writer marshals      *)
(* tagged items (event_tagging.c) onto a stream that arrives in pieces,    *)
(* and a reader takes an item once evtag_peek_length says it is complete.  *)
(* A resolver sends a query to a server port, whose callback adds records  *)
(* and responds, and the resolver reads the response (evdns.c).  The two   *)
(* share nothing: a behaviour has a stream or an exchange.                 *)
(***************************************************************************)
EXTENDS Tagging, DnsWire, TLC

CONSTANTS
    Items,     \* what is marshalled: [tag, kind, v]
    MaxItems,  \* items of a stream
    Asks,      \* the queries: [name, type, trans_id]
    Records,   \* the records the server's callback may add
    MaxRecords,
    Errs       \* the error codes it may respond with

VARIABLES
    stream,  \* [sent, wire, in, got, failed]; got[k] is <<>> for an item skipped
    dns      \* [phase, ask, packet, req, cut, told]

vars == <<stream, dns>>

NoStream == [sent |-> <<>>, wire |-> <<>>, in |-> <<>>, got |-> <<>>,
             failed |-> FALSE]
NoExchange == [phase |-> "none", ask |-> <<>>, packet |-> <<>>, req |-> <<>>,
               cut |-> FALSE, told |-> <<>>]

Init == stream = NoStream /\ dns = NoExchange

(***************************************************************************)
(* The stream.  Generated code knows from the tag of an item which of the  *)
(* unmarshal functions reads it (event_rpcgen.py).                         *)
(***************************************************************************)
Marshalled(i) ==
    CASE i.kind = "int" -> evtag_marshal_int(i.tag, i.v)
      [] i.kind = "timeval" -> evtag_marshal_timeval(i.tag, i.v)
      [] OTHER -> evtag_marshal(i.tag, i.v)

Unmarshalled(i, buf) ==
    CASE i.kind = "int" -> evtag_unmarshal_int(buf, i.tag)
      [] i.kind = "timeval" -> evtag_unmarshal_timeval(buf, i.tag)
      [] i.kind = "fixed" -> evtag_unmarshal_fixed(buf, i.tag, Len(i.v))
      [] OTHER -> evtag_unmarshal_string(buf, i.tag)

Marshal(i) ==
    /\ dns = NoExchange /\ Len(stream.sent) < MaxItems
    /\ stream' = [stream EXCEPT !.sent = Append(@, i), !.wire = @ \o Marshalled(i)]
    /\ UNCHANGED dns

\* The next piece of the stream comes in: one byte, or all there is.
Arrive(n) ==
    /\ n \in 1..Len(stream.wire) /\ n \in {1, Len(stream.wire)}
    /\ stream' = [stream EXCEPT !.in = @ \o SubSeq(stream.wire, 1, n),
                                !.wire = SubSeq(@, n + 1, Len(@))]
    /\ UNCHANGED dns

Complete(buf) ==
    LET p == evtag_peek_length(buf) IN p.ok /\ p.v <= Len(buf)

\* The stream after a call that read u, of which the reader keeps item.
After(u, item) ==
    [stream EXCEPT !.in = u.rest, !.failed = @ \/ ~u.ok, !.got = Append(@, item)]
Kept(i, u) == After(u, <<[tag |-> i.tag, kind |-> i.kind, v |-> u.v]>>)

Unmarshal ==
    /\ Complete(stream.in)
    /\ \E i \in Items :
          /\ i.tag = evtag_peek(stream.in)
          /\ stream' = Kept(i, Unmarshalled(i, stream.in))
    /\ UNCHANGED dns

\* An item the reader has no use for.
Skip ==
    /\ Complete(stream.in)
    /\ stream' = After(evtag_consume(stream.in), <<>>)
    /\ UNCHANGED dns

(***************************************************************************)
(* The exchange.                                                           *)
(***************************************************************************)
Ask(a) ==
    /\ stream = NoStream /\ dns = NoExchange
    /\ LET w == evdns_request_data_build(a.name, a.trans_id, a.type)
       IN  /\ w.res = 0
           /\ dns' = [dns EXCEPT !.phase = "asked", !.ask = a, !.packet = w.buf]
    /\ UNCHANGED stream

Serve ==
    /\ dns.phase = "asked"
    /\ LET r == request_parse(dns.packet)
       IN  dns' = [dns EXCEPT !.phase = IF r.ok THEN "served" ELSE "refused",
                              !.req = r]
    /\ UNCHANGED stream

AddReply(section, item) ==
    /\ dns.phase = "served"
    /\ FoldLeft(LAMBDA n, s : n + Len(s), 0, dns.req.sections) < MaxRecords
    /\ dns' = [dns EXCEPT !.req = evdns_server_request_add_reply(@, section, item)]
    /\ UNCHANGED stream

\* The response is sent at once and the request is freed; its records are kept
\* here for the property.  The replies a full socket keeps back are not
\* modelled.
Respond(err) ==
    /\ dns.phase = "served"
    /\ LET r == evdns_server_request_format_response(dns.req, err)
       IN  dns' = [dns EXCEPT !.phase = IF r.res = 0 THEN "responded" ELSE "failed",
                              !.packet = r.packet, !.cut = r.cut]
    /\ UNCHANGED stream

Receive ==
    /\ dns.phase = "responded"
    /\ dns' = [dns EXCEPT !.phase = "told", !.told = reply_parse(dns.packet, dns.ask)]
    /\ UNCHANGED stream

Next ==
    \/ \E i \in Items : Marshal(i)
    \/ \E n \in 1..Len(stream.wire) : Arrive(n)
    \/ Unmarshal
    \/ Skip
    \/ \E a \in Asks : Ask(a)
    \/ Serve
    \/ \E section \in 1..3, item \in Records : AddReply(section, item)
    \/ \E err \in Errs : Respond(err)
    \/ Receive

Spec == Init /\ [][Next]_vars

-----------------------------------------------------------------------------
(***************************************************************************)
(* The reader of a stream gets the items of the writer, whole, unchanged   *)
(* and in their order, however the bytes arrive and whichever items it     *)
(* skips: evtag_peek_length says exactly when an item is complete and      *)
(* every unmarshal function drains exactly one item (event_tagging.c).     *)
(***************************************************************************)
ItemsRecovered ==
    /\ ~stream.failed
    /\ Len(stream.got) <= Len(stream.sent)
    /\ \A k \in 1..Len(stream.got) :
          stream.got[k] \in {<<>>, <<stream.sent[k]>>}
    /\ stream.wire = <<>> /\ stream.in = <<>> =>
          Len(stream.got) = Len(stream.sent)

\* A name as it is read back: without the dot it may end in.
Canonical(name) ==
    IF Last(name) = <<>> THEN SubSeq(name, 1, Len(name) - 1) ELSE name

\* The records of the answer section that answer a question of a type.
Answers(req, type) == SelectSeq(req.sections[1], LAMBDA r : r.type = type)

\* What the user of the resolver is told about them.
Expected(req, type) ==
    LET answers == Answers(req, type)
        blocks == [k \in 1..Len(answers) |-> Blocks(answers[k].data, AddrLen(type))]
        \* the records looked at until MAX_ADDRS addresses are found
        used == {k \in 1..Len(answers) :
                    FoldLeft(LAMBDA n, b : n + Len(b), 0, SubSeq(blocks, 1, k - 1))
                        < MAX_ADDRS}
        all == FlattenSeq(blocks)
    IN  IF type = TYPE_PTR
        THEN [err |-> "NONE", ttl |-> answers[1].ttl,
              data |-> Canonical(answers[1].data)]
        ELSE [err |-> "NONE", ttl |-> Min({answers[k].ttl : k \in used}),
              data |-> SubSeq(all, 1, Min({MAX_ADDRS, Len(all)}))]

(***************************************************************************)
(* A query reaches the server with its name, and the user of the resolver  *)
(* is told what the callback of the server answered: the addresses or the  *)
(* name of the records of his type, in their order, with their smallest    *)
(* time to live, whichever names were compressed to which pointers.  An    *)
(* error, an answer without such a record and a response that was cut are  *)
(* told as errors, never as a part of the answer (dnsname_to_labels,       *)
(* name_parse, evdns_server_request_format_response, reply_parse).         *)
(***************************************************************************)
AnswersRecovered ==
    /\ dns.phase \notin {"refused", "failed"}
    /\ dns.phase \in {"served", "responded", "told"} =>
          dns.req.questions = <<[name |-> Canonical(dns.ask.name),
                                 type |-> dns.ask.type]>>
    /\ dns.phase = "told" =>
          IF \/ dns.cut \/ Answers(dns.req, dns.ask.type) = <<>>
             \/ IsError(GET16(dns.packet, 2))
          THEN dns.told.err \notin {"NONE", "ignored"}
          ELSE dns.told = Expected(dns.req, dns.ask.type)

\* A response that was cut to UdpMax bytes says so: the resolver tells its
\* user DNS_ERR_TRUNCATED (evdns.c, "set the truncated bit").
CutIsMarked == dns.phase = "told" /\ dns.cut => dns.told.err = "TRUNCATED"
=============================================================================
