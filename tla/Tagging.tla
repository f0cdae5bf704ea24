------------------------------ MODULE Tagging ------------------------------
(***************************************************************************)
(* The tagged marshalling of libevent 1.4.3 (event_tagging.c).  A buffer   *)
(* is the sequence of its bytes.  A marshal function gives the bytes it    *)
(* appends; an unmarshal function gives [ok, v, rest], where v is what it  *)
(* read and rest the buffer it leaves: a failing call leaves the buffer    *)
(* without the fields it had already drained.  The scratch buffer _buf is  *)
(* emptied before every use, so it is a local value here.                  *)
(***************************************************************************)
EXTENDS Integers, Sequences, SequencesExt

\* The digits of n to a base, the lowest first: the loops that shift it out.
RECURSIVE Digits(_, _)
Digits(n, base) ==
    IF n = 0 THEN <<>> ELSE <<n % base>> \o Digits(n \div base, base)

\* Nibble i of the number is the low half of byte i / 2 when i is odd, the
\* high half when it is even; nibble 0 holds their number less one.
encode_int(number) ==
    LET d == Digits(number, 16)
        off == 1 + Len(d)
        nibbles == IF off > 2 THEN off - 2 ELSE 0
        Nibble(i) == IF i = 0 THEN nibbles
                     ELSE IF i <= Len(d) THEN d[i] ELSE 0
    IN  [k \in 1..((off + 1) \div 2) |->
            16 * Nibble(2 * (k - 1)) + Nibble(2 * k - 1)]

evtag_encode_tag(tag) ==
    LET d == IF tag = 0 THEN <<0>> ELSE Digits(tag, 128)
    IN  [k \in 1..Len(d) |-> IF k < Len(d) THEN d[k] + 128 ELSE d[k]]

Fails(buf) == [ok |-> FALSE, v |-> 0, rest |-> buf]
Reads(v, buf, n) ==
    [ok |-> TRUE, v |-> v, rest |-> SubSeq(buf, n + 1, Len(buf))]

\* The length of a tag on the wire: up to the first octet without the high bit.
decode_tag_internal(buf) ==
    IF \A i \in 1..Len(buf) : buf[i] >= 128 THEN Fails(buf)
    ELSE LET count == SelectInSeq(buf, LAMBDA b : b < 128)
             number[i \in 1..count] ==
                (buf[i] % 128) + (IF i < count THEN 128 * number[i + 1] ELSE 0)
         IN  Reads(number[1], buf, count)

\* Mutant: the length is rounded as the encoder rounds it.
decode_int_short(buf) ==
    IF buf = <<>> THEN Fails(buf)
    ELSE LET nibbles == (buf[1] \div 16) + 1
             len == (nibbles + 1) \div 2
             Nibble(i) == IF i % 2 = 1 THEN buf[(i \div 2) + 1] % 16
                          ELSE buf[(i \div 2) + 1] \div 16
             number[i \in 1..(nibbles + 1)] ==
                IF i > nibbles THEN 0 ELSE 16 * number[i + 1] + Nibble(i)
         IN  IF nibbles > 8 \/ (nibbles \div 2) + 1 > Len(buf) THEN Fails(buf)
             ELSE Reads(number[1], buf, len)

decode_int_internal(buf) ==
    IF buf = <<>> THEN Fails(buf)
    ELSE LET nibbles == (buf[1] \div 16) + 1
             len == (nibbles \div 2) + 1
             Nibble(i) == IF i % 2 = 1 THEN buf[(i \div 2) + 1] % 16
                          ELSE buf[(i \div 2) + 1] \div 16
             number[i \in 1..(nibbles + 1)] ==
                IF i > nibbles THEN 0 ELSE 16 * number[i + 1] + Nibble(i)
         IN  IF nibbles > 8 \/ len > Len(buf) THEN Fails(buf)
             ELSE Reads(number[1], buf, len)

evtag_marshal(tag, data) ==
    evtag_encode_tag(tag) \o encode_int(Len(data)) \o data
evtag_marshal_int(tag, integer) == evtag_marshal(tag, encode_int(integer))
evtag_marshal_timeval(tag, tv) ==
    evtag_marshal(tag, encode_int(tv[1]) \o encode_int(tv[2]))

evtag_peek(buf) == decode_tag_internal(buf).v

evtag_payload_length(buf) ==
    LET t == decode_tag_internal(buf)
    IN  IF t.ok THEN decode_int_internal(t.rest) ELSE t

evtag_peek_length(buf) ==
    LET p == evtag_payload_length(buf)
    IN  IF p.ok THEN [p EXCEPT !.v = @ + (Len(buf) - Len(p.rest))] ELSE p

\* evbuffer_drain of more than there is empties the buffer.
evtag_consume(buf) ==
    LET p == evtag_payload_length(buf)
    IN  IF p.ok THEN Reads(0, p.rest, p.v) ELSE p

\* A failure has drained the tag, and the length once that could be read.
evtag_unmarshal(buf) ==
    LET t == decode_tag_internal(buf)
        p == decode_int_internal(t.rest)
    IN  IF ~t.ok THEN t
        ELSE IF ~p.ok \/ Len(p.rest) < p.v THEN Fails(p.rest)
        ELSE Reads(<<t.v, SubSeq(p.rest, 1, p.v)>>, p.rest, p.v)

evtag_unmarshal_string(buf, need_tag) ==
    LET u == evtag_unmarshal(buf)
    IN  IF u.ok /\ u.v[1] = need_tag THEN [u EXCEPT !.v = u.v[2]]
        ELSE Fails(u.rest)

evtag_unmarshal_fixed(buf, need_tag, len) ==
    LET u == evtag_unmarshal_string(buf, need_tag)
    IN  IF u.ok /\ Len(u.v) = len THEN u ELSE Fails(u.rest)

\* Stops at once when the tag is another one, before the length is read.
evtag_unmarshal_int(buf, need_tag) ==
    LET t == decode_tag_internal(buf)
        u == evtag_unmarshal(buf)
        i == decode_int_internal(u.v[2])
    IN  IF t.ok /\ t.v # need_tag THEN Fails(t.rest)
        ELSE IF u.ok /\ i.ok THEN [u EXCEPT !.v = i.v]
        ELSE Fails(u.rest)

\* Two integers in the payload of u; what is behind them does not matter.
SecAndUsec(u, sec) ==
    LET usec == decode_int_internal(sec.rest)
    IN  IF u.ok /\ sec.ok /\ usec.ok THEN [u EXCEPT !.v = <<sec.v, usec.v>>]
        ELSE Fails(u.rest)
TimevalIn(u) == SecAndUsec(u, decode_int_internal(u.v))
evtag_unmarshal_timeval(buf, need_tag) == TimevalIn(evtag_unmarshal_string(buf, need_tag))
=============================================================================
