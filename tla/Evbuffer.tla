------------------------------ MODULE Evbuffer ------------------------------
(***************************************************************************)
(* The evbuffer of libevent 1.4.3 (buffer.c): a contiguous block with the  *)
(* data somewhere in its middle.  A buffer is a record                     *)
(*   mem  - the block orig_buffer points to (Len(mem) is totallen),        *)
(*   mis  - misalign, the distance of buffer from orig_buffer,             *)
(*   off  - the number of bytes of data,                                   *)
(*   over - TRUE once a byte was written or read beyond the block.         *)
(* The functions below return the buffer after the call; the callback of a *)
(* buffer is called by the functions of module Bufferevent, which sets it. *)
(***************************************************************************)
EXTENDS Integers, Sequences, SequencesExt, FiniteSetsExt

CONSTANTS
    MinLen,      \* 256, the smallest block evbuffer_expand allocates
    PrintfLen,   \* 64, the space evbuffer_add_vprintf asks for first
    MaxRead      \* EVBUFFER_MAX_READ, 4096

ASSUME EvbufferAssumption ==
    MinLen \in Nat \ {0} /\ PrintfLen \in Nat \ {0} /\ MaxRead \in Nat \ {0}

evbuffer_new == [mem |-> <<>>, mis |-> 0, off |-> 0, over |-> FALSE]

\* The data of a buffer: what EVBUFFER_DATA and EVBUFFER_LENGTH give.
Content(b) == IF b.mis + b.off <= Len(b.mem)
              THEN SubSeq(b.mem, b.mis + 1, b.mis + b.off) ELSE <<>>

evbuffer_align(b) ==
    [b EXCEPT !.mem = [i \in 1..Len(b.mem) |->
                          IF i <= b.off THEN b.mem[b.mis + i] ELSE b.mem[i]],
              !.mis = 0]

\* "while (length < need) length <<= 1", from a block of at least MinLen.
Doubled(length, need) ==
    Min({n \in length..(2 * need + length) :
            n >= need /\ \E k \in 0..need : n = length * 2 ^ k})
realloc(b, length) ==
    [b EXCEPT !.mem = [i \in 1..length |->
                          IF i <= Len(b.mem) THEN b.mem[i] ELSE 0]]

evbuffer_expand(b, datlen) ==
    LET need == b.mis + b.off + datlen IN
    CASE Len(b.mem) >= need -> b
      [] Len(b.mem) < need /\ b.mis >= datlen -> evbuffer_align(b)
      [] OTHER -> realloc(IF b.mis = 0 THEN b ELSE evbuffer_align(b),
                          Doubled(Max({Len(b.mem), MinLen}), need))

\* memcpy or read to buffer + off.
StoreAt(b, data) ==
    IF b.mis + b.off + Len(data) > Len(b.mem) THEN [b EXCEPT !.over = TRUE]
    ELSE [b EXCEPT !.mem = [i \in DOMAIN @ |->
                               IF i - b.mis - b.off \in DOMAIN data
                               THEN data[i - b.mis - b.off] ELSE @[i]]]

evbuffer_add(b, data) ==
    LET e == StoreAt(evbuffer_expand(b, Len(data)), data)
    IN  [e EXCEPT !.off = @ + Len(data)]

\* Mutant: the offset of the data is not moved.
drain_shrinks(b, len) ==
    IF len >= b.off THEN [b EXCEPT !.off = 0, !.mis = 0]
    ELSE [b EXCEPT !.off = @ - len]

evbuffer_drain(b, len) ==
    IF len >= b.off THEN [b EXCEPT !.off = 0, !.mis = 0]
    ELSE [b EXCEPT !.mis = @ + len, !.off = @ - len]

\* evbuffer_add_vprintf: vsnprintf stores a NUL behind the text.
evbuffer_add_vprintf(b, data) ==
    LET e == evbuffer_expand(b, PrintfLen)
        f == IF Len(data) < Len(e.mem) - e.mis - e.off THEN e
             ELSE evbuffer_expand(e, Len(data) + 1)
        g == StoreAt(f, Append(data, 0))
    IN  [g EXCEPT !.off = @ + Len(data)]

\* evbuffer_remove and the copy in bufferevent_read: min(datlen, off) bytes.
Removed(b, datlen) == SubSeq(Content(b), 1, Min({datlen, b.off}))

\* evbuffer_readline.  cr and lf: the two line end characters.  LineEnd is
\* the place of the first of them, 0 if there is none; Consumed the number of
\* bytes taken with the line, the second of two different characters too.
LineEnd(b, cr, lf) ==
    SelectInSeq(Content(b), LAMBDA c : c \in {cr, lf})
Consumed(b, cr, lf) ==
    LET i == LineEnd(b, cr, lf)
        data == Content(b)
    IN  IF i < b.off /\ data[i + 1] \in {cr, lf} /\ data[i + 1] # data[i]
        THEN i + 1 ELSE i

\* evbuffer_add_buffer: <<outbuf, inbuf>> after the data has moved.
evbuffer_add_buffer(outbuf, inbuf) ==
    IF outbuf.off = 0 THEN <<inbuf, outbuf>>
    ELSE <<evbuffer_add(outbuf, Content(inbuf)), evbuffer_drain(inbuf, inbuf.off)>>

\* evbuffer_read: how much is read with n bytes there (FIONREAD), and the
\* buffer with the bytes.
HowMuch(b, n, howmuch) ==
    LET limit == CASE n = 0 -> MaxRead
                   [] n > MaxRead /\ n > howmuch ->
                        Max({MaxRead, Min({n, 4 * Len(b.mem)})})
                   [] OTHER -> n
    IN  IF howmuch < 0 \/ howmuch > limit THEN limit ELSE howmuch
evbuffer_read(b, data, howmuch) ==
    LET e == StoreAt(evbuffer_expand(b, howmuch), data)
    IN  [e EXCEPT !.off = @ + Len(data)]

=============================================================================
