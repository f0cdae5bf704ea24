------------------------------ MODULE DnsWire ------------------------------
(***************************************************************************)
(* The DNS messages of libevent 1.4.3 (evdns.c): how the resolver writes a *)
(* query and reads a reply, and how a server port reads a query and writes *)
(* its response, with the compression of names.  A packet is a sequence of *)
(* bytes.  A name is the sequence of the labels between its dots (a name   *)
(* that ends in a dot has an empty last label), a label the sequence of    *)
(* its characters.  A question is [name, type]; a resource record is       *)
(* [name, type, ttl, is_name, data], data being a name or bytes.           *)
(***************************************************************************)
EXTENDS Integers, Sequences, SequencesExt, FiniteSetsExt

CONSTANTS
    BufLen,     \* 1500, the buffer a response is formatted in
    UdpMax,     \* 512, the longest response that is sent
    MAX_LABELS, \* 128, the size of the compression table
    MAX_ADDRS,  \* 32, the addresses taken from one reply
    NameMax     \* 256 (255 in a PTR record), the room for a name that is read

ASSUME DnsWireAssumption ==
    /\ UdpMax \in Nat /\ BufLen \in UdpMax..16383 /\ 12 <= UdpMax
    /\ MAX_LABELS \in Nat /\ MAX_ADDRS \in Nat \ {0} /\ NameMax \in Nat \ {0}

TYPE_A == 1
TYPE_PTR == 12
TYPE_AAAA == 28
CLASS_INET == 1

U16(n) == <<n \div 256, n % 256>>
U32(n) == U16(n \div 65536) \o U16(n % 65536)

(***************************************************************************)
(* Writing.  A writer is [buf, table, res]: buf[j] is the last byte        *)
(* written, table the suffixes that can be pointed to, and res is 0, or    *)
(* -1 or -2 once something did not fit, after which nothing is written.    *)
(***************************************************************************)
Writer == [buf |-> <<>>, table |-> <<>>, res |-> 0]
Put(w, bytes, buf_len) ==
    IF w.res # 0 THEN w
    ELSE IF Len(w.buf) + Len(bytes) > buf_len THEN [w EXCEPT !.res = -2]
    ELSE [w EXCEPT !.buf = @ \o bytes]
APPEND16(w, n, buf_len) == Put(w, U16(n), buf_len)
APPEND32(w, n, buf_len) == Put(w, U32(n), buf_len)

dnslabel_table_get_pos(table, name) ==
    LET i == SelectInSeq(table, LAMBDA e : e.v = name)
    IN  IF i = 0 THEN -1 ELSE table[i].pos

\* Mutant: the position after the length octet is remembered.
table_add_text(w, name, size) ==
    IF Len(w.table) >= size THEN w
    ELSE [w EXCEPT !.table = @ \o <<[v |-> name, pos |-> Len(w.buf) + 1]>>]

dnslabel_table_add(w, name, size) ==
    IF Len(w.table) >= size THEN w
    ELSE [w EXCEPT !.table = @ \o <<[v |-> name, pos |-> Len(w.buf)]>>]

\* The closing 0 is written without a look at the length of the buffer.
Terminated(w) ==
    IF w.res = 0 /\ (w.buf = <<>> \/ Last(w.buf) # 0)
    THEN [w EXCEPT !.buf = @ \o <<0>>] ELSE w

\* size is the room in the table, 0 when the caller gives none.
RECURSIVE Labels(_, _, _, _)
Labels(w, name, buf_len, size) ==
    LET ref == dnslabel_table_get_pos(w.table, name)
        label == Head(name)
        put == Put(dnslabel_table_add(w, name, size),
                   <<Len(label)>> \o label, buf_len)
    IN  IF ref >= 0 THEN APPEND16(w, ref + 49152, buf_len)
        ELSE IF Len(label) > 63 THEN [w EXCEPT !.res = -1]
        ELSE IF put.res # 0 THEN [w EXCEPT !.res = -2]
        ELSE IF Len(name) = 1 THEN Terminated(put)
        ELSE Labels(put, Tail(name), buf_len, size)

\* The characters of a name with its dots.
NameLen(name) == FoldLeft(LAMBDA n, l : n + Len(l) + 1, -1, name)

dnsname_to_labels(w, name, buf_len, size) ==
    IF w.res # 0 THEN w
    ELSE IF NameLen(name) > 255 THEN [w EXCEPT !.res = -2]
    ELSE Labels(w, name, buf_len, size)

evdns_request_len(name) == 96 + NameLen(name) + 2 + 4

evdns_request_data_build(name, trans_id, type) ==
    LET len == evdns_request_len(name)
        header == FoldLeft(LAMBDA w, n : APPEND16(w, n, len), Writer,
                           <<trans_id, 256, 1, 0, 0, 0>>)
        q == dnsname_to_labels(header, name, len, 0)
    IN  APPEND16(APPEND16(q, type, len), CLASS_INET, len)

\* A name as the data of a record: its length is filled in afterwards, in the
\* two bytes that w was left without.
FillLength(w, d) ==
    LET at == Len(w.buf)
        len == Len(d.buf) - (at + 2)
    IN  IF w.res # 0 THEN w
        ELSE IF d.res # 0 THEN [w EXCEPT !.res = -2]
        ELSE [d EXCEPT !.buf = [@ EXCEPT ![at + 1] = len \div 256,
                                         ![at + 2] = len % 256]]
FormatData(w, item) ==
    IF item.is_name
    THEN FillLength(w, dnsname_to_labels([w EXCEPT !.buf = @ \o <<0, 0>>],
                                         item.data, BufLen, MAX_LABELS))
    ELSE Put(APPEND16(w, Len(item.data), BufLen), item.data, BufLen)

\* One record of a section.
FormatItem(w, item) ==
    LET n == dnsname_to_labels(w, item.name, BufLen, MAX_LABELS)
        h == APPEND32(APPEND16(APPEND16(n, item.type, BufLen),
                               CLASS_INET, BufLen), item.ttl, BufLen)
    IN  FormatData(h, item)

\* A failure to encode a question's name ends the formatting; a lack of room
\* for the numbers behind it, or for any record, only truncates.
FormatQuestion(w, q) ==
    LET n == dnsname_to_labels(w, q.name, BufLen, MAX_LABELS)
    IN  IF w.res = 0 /\ n.res # 0 THEN [n EXCEPT !.res = -1]
        ELSE APPEND16(APPEND16(n, q.type, BufLen), CLASS_INET, BufLen)

\* buf[3] |= 0x02, on the fourth byte.
OrTwo(byte) == IF (byte \div 2) % 2 = 1 THEN byte ELSE byte + 2

\* The packet to send, cut to UdpMax bytes if need be: [res, packet, cut].
\* What is behind the end of an overflowing buffer is not initialised, and no
\* reader gets there.
Finished(w) ==
    LET cut == w.res # 0 \/ Len(w.buf) > UdpMax
        short == SubSeq(w.buf, 1, Min({UdpMax, Len(w.buf)}))
    IN  [res |-> 0, cut |-> cut,
         packet |-> IF cut THEN [short EXCEPT ![4] = OrTwo(@)] ELSE w.buf]

\* req is [trans_id, flags, questions, sections], sections the sequence of the
\* answers, the authorities and the additional records.
evdns_server_request_format_response(req, err) ==
    LET counts == <<Len(req.questions)>>
                    \o [s \in 1..3 |-> Len(req.sections[s])]
        header == FoldLeft(LAMBDA w, n : APPEND16(w, n, BufLen), Writer,
                           <<req.trans_id, req.flags + 32768 + err>> \o counts)
        asked == FoldLeft(FormatQuestion, header, req.questions)
    IN  IF asked.res = -1 THEN [res |-> -1, packet |-> <<>>, cut |-> FALSE]
        ELSE Finished(FoldLeft(LAMBDA w, s : FoldLeft(FormatItem, w, s),
                               asked, req.sections))

(***************************************************************************)
(* Reading.  j is the offset of the next byte, so that byte is packet[j+1].*)
(***************************************************************************)
GET16(packet, j) == 256 * packet[j + 1] + packet[j + 2]
GET32(packet, j) == 65536 * GET16(packet, j) + GET16(packet, j + 2)
Has(packet, j, n) == j + n <= Len(packet)
NoName == [ok |-> FALSE, name |-> <<>>, idx |-> 0]

\* Gives [ok, name, idx]; name_end is where reading goes on after the first
\* pointer, ptrs the number of pointers followed, out the labels so far.
RECURSIVE NameFrom(_, _, _, _, _)
NameFrom(packet, j, name_end, ptrs, out) ==
    IF ~Has(packet, j, 1) THEN NoName
    ELSE LET label_len == packet[j + 1]
             target == 256 * (label_len % 64) + packet[j + 2]
             label == SubSeq(packet, j + 2, j + 1 + label_len)
             longer == Append(out, label)
         IN  IF label_len = 0
             THEN IF out # <<>> /\ NameLen(out) >= NameMax THEN NoName
                  ELSE [ok |-> TRUE, name |-> out,
                        idx |-> IF name_end < 0 THEN j + 1 ELSE name_end]
             ELSE IF label_len >= 64
             THEN IF \/ ~Has(packet, j, 2) \/ target >= Len(packet)
                     \/ ptrs + 1 > Len(packet)
                  THEN NoName
                  ELSE NameFrom(packet, target,
                                IF name_end < 0 THEN j + 2 ELSE name_end,
                                ptrs + 1, out)
             ELSE IF NameLen(longer) >= NameMax THEN NoName
             ELSE NameFrom(packet, j + 1 + label_len, name_end, ptrs, longer)
name_parse(packet, idx) == NameFrom(packet, idx, -1, 0, <<>>)
\* An error or an empty reply is reported by what the header says.
ReplyError(flags) ==
    LET error_code == (flags % 16) - 1
    IN  IF (flags \div 512) % 2 = 1 THEN "TRUNCATED"
        ELSE IF error_code \in 0..4
        THEN <<"FORMAT", "SERVERFAILED", "NOTEXIST", "NOTIMPL", "REFUSED">>[error_code + 1]
        ELSE "UNKNOWN"
IsError(flags) == (flags \div 512) % 2 = 1 \/ flags % 16 # 0

\* The questions of a packet from offset 12: [ok, idx, questions].
SkipQuestion(packet, r) ==
    LET n == name_parse(packet, r.idx)
    IN  IF ~r.ok \/ ~n.ok \/ ~Has(packet, n.idx, 4) THEN [r EXCEPT !.ok = FALSE]
        ELSE [ok |-> TRUE, idx |-> n.idx + 4,
              questions |-> Append(r.questions, [name |-> n.name,
                                                 type |-> GET16(packet, n.idx)])]
Questions(packet) ==
    FoldLeft(LAMBDA r, i : SkipQuestion(packet, r),
             [ok |-> TRUE, idx |-> 12, questions |-> <<>>],
             [i \in 1..GET16(packet, 4) |-> i])

AddrLen(type) == IF type = TYPE_A THEN 4 ELSE 16
Blocks(bytes, size) ==
    [k \in 1..(Len(bytes) \div size) |-> SubSeq(bytes, size * (k - 1) + 1, size * k)]

\* One record of the answer section; a is [ok, done, idx, have, ttl, data].
Answer(packet, type, a) ==
    LET n == name_parse(packet, a.idx)
        h == n.idx
        datalength == GET16(packet, h + 8)
        ttl == GET32(packet, h + 4)
        got == [a EXCEPT !.have = TRUE,
                         !.ttl = IF a.have THEN Min({@, ttl}) ELSE ttl]
        size == AddrLen(type)
        copy == Min({MAX_ADDRS - Len(a.data), datalength \div size})
        bytes == SubSeq(packet, h + 11, h + 10 + size * copy)
        ptr == name_parse(packet, h + 10)
    IN  IF a.done THEN a
        ELSE IF ~n.ok \/ ~Has(packet, h, 10) THEN [a EXCEPT !.ok = FALSE, !.done = TRUE]
        ELSE IF GET16(packet, h) # type \/ GET16(packet, h + 2) # CLASS_INET
        THEN [a EXCEPT !.idx = h + 10 + datalength]
        ELSE IF type = TYPE_PTR
        THEN IF ptr.ok THEN [got EXCEPT !.data = ptr.name, !.done = TRUE]
             ELSE [a EXCEPT !.ok = FALSE, !.done = TRUE]
        ELSE IF datalength % size # 0 \/ ~Has(packet, h + 10, size * copy)
        THEN [a EXCEPT !.ok = FALSE, !.done = TRUE]
        ELSE [got EXCEPT !.idx = h + 10 + size * copy,
                         !.data = @ \o Blocks(bytes, size),
                         !.done = Len(a.data) + copy = MAX_ADDRS]

\* What the user of the request [trans_id, type] is told: [err, ttl, data], or
\* "ignored" when the packet is no answer to it.
reply_parse(packet, req) ==
    LET flags == GET16(packet, 2)
        q == Questions(packet)
        a == FoldLeft(LAMBDA s, i : Answer(packet, req.type, s),
                      [ok |-> TRUE, done |-> FALSE, idx |-> q.idx,
                       have |-> FALSE, ttl |-> 0, data |-> <<>>],
                      [i \in 1..GET16(packet, 6) |-> i])
        error == [err |-> ReplyError(flags), ttl |-> 0, data |-> <<>>]
    IN  IF \/ ~Has(packet, 0, 12) \/ GET16(packet, 0) # req.trans_id
           \/ flags < 32768
        THEN [err |-> "ignored", ttl |-> 0, data |-> <<>>]
        ELSE IF IsError(flags) \/ ~q.ok \/ ~a.ok \/ ~a.have THEN error
        ELSE [err |-> "NONE", ttl |-> a.ttl, data |-> a.data]

\* Of the flags only RD and CD are kept.
request_parse(packet) ==
    LET flags == GET16(packet, 2)
        q == Questions(packet)
    IN  [ok |-> Has(packet, 0, 12) /\ flags < 32768 /\ q.ok,
         trans_id |-> GET16(packet, 0),
         flags |-> 256 * ((flags \div 256) % 2) + 16 * ((flags \div 16) % 2),
         questions |-> q.questions, sections |-> << <<>>, <<>>, <<>> >>]

evdns_server_request_add_reply(req, section, item) ==
    [req EXCEPT !.sections[section] = Append(@, item)]
=============================================================================
