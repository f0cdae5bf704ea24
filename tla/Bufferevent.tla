---------------------------- MODULE Bufferevent ----------------------------
(***************************************************************************)
(* The buffered events of libevent 1.4.3 (evbuffer.c) over the evbuffers   *)
(* of module Evbuffer: a read and a write event on one descriptor, an      *)
(* input and an output buffer, watermarks and time-outs; with them the     *)
(* descriptor, the application's own evbuffer and the application's calls. *)
(*                                                                         *)
(* An event is reduced to what event.c makes of it (module EventLoop has   *)
(* the rest): ins - it is with the backend; timed - its time-out is armed; *)
(* act - it waits in the active queue, for I/O or for its time-out.        *)
(***************************************************************************)
EXTENDS Evbuffer

CONSTANTS
    Loads,       \* applications: [in |-> what the peer sends, out |-> what
                 \* is written, uses |-> the calls made, sides |-> the sides
                 \* that are enabled, disabled and given watermarks]
    Cr, Lf,      \* the line end bytes
    Watermarks,  \* pairs <<low, high>> the application sets
    MaxTunes,    \* bound: disable, watermark and time-out calls
    MaxUpsets    \* bound: EAGAIN, errors, end of file, time-outs

ASSUME BuffereventAssumption ==
    /\ Cr # Lf /\ MaxTunes \in Nat /\ MaxUpsets \in Nat
    /\ \A w \in Watermarks : w[1] \in Nat /\ w[2] \in Nat

VARIABLE s
vars == <<s>>

Fault(ss, f) == IF ss.fault = "none" THEN [ss EXCEPT !.fault = f] ELSE ss
Sides == {"read", "write"}

-----------------------------------------------------------------------------
(* event.c, as evbuffer.c uses it                                          *)

NotPending == [ins |-> FALSE, timed |-> FALSE, act |-> "no"]

\* event_add.  An event that is active for its time-out leaves the queue when
\* a new time-out is given; an active event is not given to the backend.
event_add(e, tv) ==
    LET act == IF tv /\ e.act = "timeout" THEN "no" ELSE e.act
    IN  [ins |-> e.ins \/ act = "no", timed |-> e.timed \/ tv, act |-> act]

bufferevent_add(ss, side) ==
    IF ss.freed THEN Fault(ss, "freed")
    ELSE [ss EXCEPT !.ev[side] = event_add(@, ss.timeout[side]),
                    !.failed[side] = FALSE]
event_del(ss, side) ==
    IF ss.freed THEN Fault(ss, "freed") ELSE [ss EXCEPT !.ev[side] = NotPending]

-----------------------------------------------------------------------------
(* The application's calls                                                 *)

\* bufferevent_read_pressure_cb.
bufferevent_read_pressure_cb(ss, now) ==
    IF ss.high # 0 /\ now >= ss.high THEN ss
    ELSE LET e == [ss EXCEPT !.cb = FALSE] IN
         IF "read" \in ss.enabled THEN bufferevent_add(e, "read") ELSE e

\* The callback of the input buffer, after its length has changed.
Notified(ss, old) ==
    IF ss.input.off # old /\ ss.cb
    THEN bufferevent_read_pressure_cb(ss, ss.input.off) ELSE ss

\* The first k bytes that are to be taken from the input are data.
Took(ss, data) ==
    IF data # SubSeq(ss.inq, 1, Len(data)) THEN Fault(ss, "order")
    ELSE [ss EXCEPT !.inq = SubSeq(@, Len(data) + 1, Len(@))]

\* evbuffer_drain of the input buffer, with its callback.
Drained(ss, n) ==
    Notified([ss EXCEPT !.input = evbuffer_drain(@, n)], ss.input.off)

bufferevent_read(ss, n) ==
    Drained(Took(ss, Removed(ss.input, n)), Min({n, ss.input.off}))

\* evbuffer_readline of the input buffer.
evbuffer_readline(ss) ==
    IF LineEnd(ss.input, Cr, Lf) = 0 THEN ss
    ELSE LET n == Consumed(ss.input, Cr, Lf)
         IN  Drained(Took(ss, Removed(ss.input, n)), n)

\* Mutant: the swap of the two buffers is not told to the callback.
take_unnoticed(ss) ==
    LET moved == evbuffer_add_buffer(ss.mine, ss.input)
    IN  [Took(ss, Content(ss.input)) EXCEPT
            !.mine = moved[1], !.input = moved[2],
            !.held = @ \o Content(ss.input)]

\* evbuffer_add_buffer(mine, bufev->input).
Taken(ss) ==
    LET moved == evbuffer_add_buffer(ss.mine, ss.input)
    IN  Notified([Took(ss, Content(ss.input)) EXCEPT
                     !.mine = moved[1], !.input = moved[2],
                     !.held = @ \o Content(ss.input)], ss.input.off)

bufferevent_write(ss, data) ==
    LET e == [ss EXCEPT !.output = evbuffer_add(@, data), !.outq = @ \o data]
    IN  IF data # <<>> /\ "write" \in ss.enabled
        THEN bufferevent_add(e, "write") ELSE e

bufferevent_write_buffer(ss, b) ==
    [bufferevent_write(ss, Content(b)) EXCEPT !.mine = evbuffer_drain(b, b.off),
                                              !.held = <<>>]

bufferevent_enable(ss, side) ==
    [bufferevent_add(ss, side) EXCEPT !.enabled = @ \cup {side}]
bufferevent_disable(ss, side) ==
    [event_del(ss, side) EXCEPT !.enabled = @ \ {side}]
bufferevent_settimeout(ss, r, w) ==
    [ss EXCEPT !.timeout = [read |-> r, write |-> w]]

\* bufferevent_setwatermark; nothing uses the high mark for writing.
bufferevent_setwatermark(ss, side, w) ==
    LET e == IF side = "read" THEN [ss EXCEPT !.low = w[1], !.high = w[2]]
             ELSE [ss EXCEPT !.wlow = w[1]]
    IN  bufferevent_read_pressure_cb(e, e.input.off)

\* bufferevent_free; what the streams held is gone with the buffers.
bufferevent_free(ss) ==
    [event_del(event_del(ss, "read"), "write") EXCEPT
        !.freed = TRUE, !.input = evbuffer_new, !.output = evbuffer_new,
        !.inq = <<>>, !.outq = <<>>]

\* A callback of the application: it frees the bufferevent, or returns (the
\* library does nothing more, so its other calls can be steps of their own).
Call(ss, does) == IF does = "free" THEN bufferevent_free(ss) ELSE ss

-----------------------------------------------------------------------------
(* The callbacks of the two events                                         *)

\* errorcb, called when an event is not added again.
Failed(ss, side, does) == Call([ss EXCEPT !.failed[side] = TRUE], does)

\* What the read callback does after a read that returned data: the event is
\* added again first.
ReadDone(ss, does) ==
    LET e == bufferevent_add(ss, "read")
        len == e.input.off
    IN  CASE e.low # 0 /\ len < e.low -> e
          [] ~(e.low # 0 /\ len < e.low) /\ e.high # 0 /\ len > e.high ->
                [event_del(e, "read") EXCEPT !.cb = TRUE]
          [] OTHER -> Call(e, does)

\* bufferevent_readcb.  res: "timeout", "eof", "again", "error" or "data".
bufferevent_readcb(ss, res, does) ==
    LET howmuch == HowMuch(ss.input, Len(ss.rx), IF ss.high # 0 THEN ss.high ELSE -1)
        data == SubSeq(ss.rx, 1, Min({howmuch, Len(ss.rx)}))
        e == Notified([ss EXCEPT !.input = evbuffer_read(@, data, howmuch),
                                 !.rx = SubSeq(@, Len(data) + 1, Len(@))],
                      ss.input.off)
        f == [ss EXCEPT !.input = evbuffer_expand(@, howmuch)]
    IN  CASE res = "data" -> ReadDone(e, does)
          [] res = "again" -> bufferevent_add(f, "read")
          [] res = "timeout" -> Failed(ss, "read", does)
          [] OTHER -> Failed(f, "read", does)

\* evbuffer_write: k bytes are taken by the descriptor.
Written(ss, k) ==
    IF SubSeq(Content(ss.output), 1, k) # SubSeq(ss.outq, 1, k)
    THEN Fault(ss, "order")
    ELSE [ss EXCEPT !.output = evbuffer_drain(@, k),
                    !.outq = SubSeq(@, k + 1, Len(@))]

WriteDone(ss, does) ==
    LET e == IF ss.output.off # 0 THEN bufferevent_add(ss, "write") ELSE ss
    IN  IF e.output.off <= e.wlow THEN Call(e, does) ELSE e

\* Mutant: after EAGAIN the event is not added again.
writecb_again_dropped(ss, res, k, does) ==
    CASE res = "timeout" -> Failed(ss, "write", does)
      [] res # "timeout" /\ ss.output.off = 0 -> WriteDone(ss, does)
      [] res = "data" /\ ss.output.off # 0 -> WriteDone(Written(ss, k), does)
      [] res = "again" /\ ss.output.off # 0 -> ss
      [] OTHER -> Failed(ss, "write", does)

\* bufferevent_writecb.  res as above; k bytes are written.
bufferevent_writecb(ss, res, k, does) ==
    CASE res = "timeout" -> Failed(ss, "write", does)
      [] res # "timeout" /\ ss.output.off = 0 -> WriteDone(ss, does)
      [] res = "data" /\ ss.output.off # 0 -> WriteDone(Written(ss, k), does)
      [] res = "again" /\ ss.output.off # 0 -> bufferevent_add(ss, "write")
      [] OTHER -> Failed(ss, "write", does)

-----------------------------------------------------------------------------
(* The program                                                             *)

\* bufferevent_new, evbuffer_new.
Init == \E load \in Loads :
    s = [ev |-> [side \in Sides |-> NotPending], enabled |-> {"write"},
         input |-> evbuffer_new, output |-> evbuffer_new, cb |-> FALSE,
         low |-> 0, high |-> 0, wlow |-> 0,          \* wm_read, wm_write
         timeout |-> [side \in Sides |-> FALSE],
         failed |-> [side \in Sides |-> FALSE],      \* errorcb, not re-added
         freed |-> FALSE,
         rx |-> <<>>, unsent |-> load.in,            \* the descriptor, the peer
         closed |-> FALSE,
         mine |-> evbuffer_new, held |-> <<>>,       \* application's evbuffer
         inq |-> <<>>, outq |-> <<>>,    \* bytes to be read, to be written
         towrite |-> load.out, uses |-> load.uses, sides |-> load.sides,
         tunes |-> 0, upsets |-> 0, fault |-> "none"]

Live == s.fault = "none" /\ ~s.freed
Upset(e) == s.upsets < MaxUpsets /\ s' = [e EXCEPT !.upsets = @ + 1]
Tune(e) == s.tunes < MaxTunes /\ s' = [e EXCEPT !.tunes = @ + 1]

\* The peer sends; the peer shuts its side.
Arrives(k) ==
    /\ Live /\ ~s.closed /\ k <= Len(s.unsent)
    /\ s' = [s EXCEPT !.rx = @ \o SubSeq(s.unsent, 1, k),
                      !.inq = @ \o SubSeq(s.unsent, 1, k),
                      !.unsent = SubSeq(@, k + 1, Len(@))]
PeerCloses == Live /\ ~s.closed /\ Upset([s EXCEPT !.closed = TRUE])

\* The backend reports the descriptor (event_active); the time-out expires
\* (timeout_process: event_del, then event_active).
Ready(side) ==
    /\ Live /\ s.ev[side].ins /\ s.ev[side].act = "no"
    /\ side = "read" => s.rx # <<>> \/ s.closed
    /\ s' = [s EXCEPT !.ev[side].act = "io"]
Expires(side) ==
    /\ Live /\ s.ev[side].timed
    /\ Upset([s EXCEPT !.ev[side] = [NotPending EXCEPT !.act = "timeout"]])

\* event_process_active: the event is deleted and its callback called.
Reads(does) ==
    /\ Live /\ s.ev["read"].act = "io" /\ (s.rx # <<>> \/ s.closed)
    /\ s' = bufferevent_readcb(event_del(s, "read"),
                               IF s.rx # <<>> THEN "data" ELSE "eof", does)
ReadFails(res, does) ==
    /\ Live /\ s.ev["read"].act = "io"
    /\ Upset(bufferevent_readcb(event_del(s, "read"), res, does))
Writes(k, does) ==
    /\ Live /\ s.ev["write"].act = "io" /\ k <= Max({1, s.output.off})
    /\ s' = bufferevent_writecb(event_del(s, "write"), "data", k, does)
WriteFails(res, does) ==
    /\ Live /\ s.ev["write"].act = "io" /\ s.output.off # 0
    /\ Upset(bufferevent_writecb(event_del(s, "write"), res, 0, does))
TimedOut(side, does) ==
    /\ Live /\ s.ev[side].act = "timeout"
    /\ s' = IF side = "read"
            THEN bufferevent_readcb(event_del(s, side), "timeout", does)
            ELSE bufferevent_writecb(event_del(s, side), "timeout", 0, does)

\* Calls of the application, in a callback of another event.
Uses(call) == Live /\ call \in s.uses
Read(n) == Uses("read") /\ s.input.off > 0 /\ s' = bufferevent_read(s, n)
Readline ==
    Uses("line") /\ LineEnd(s.input, Cr, Lf) # 0 /\ s' = evbuffer_readline(s)
Take == Uses("take") /\ s.input.off > 0 /\ s' = Taken(s)
Fresh(k) == SubSeq(s.towrite, 1, k)
Spend(ss, k) == [ss EXCEPT !.towrite = SubSeq(@, k + 1, Len(@))]
Write(k) ==
    /\ Uses("write") /\ k <= Len(s.towrite)
    /\ s' = Spend(bufferevent_write(s, Fresh(k)), k)
Printf(k) ==
    /\ Uses("printf") /\ k <= Len(s.towrite)
    /\ s' = Spend([s EXCEPT !.mine = evbuffer_add_vprintf(@, Fresh(k)),
                            !.held = @ \o Fresh(k)], k)
WriteBuffer ==
    Uses("pass") /\ s.mine.off > 0 /\ s' = bufferevent_write_buffer(s, s.mine)
Enable(side) == Live /\ side \in s.sides /\ s' = bufferevent_enable(s, side)
Disable(side) == Live /\ side \in s.sides /\ Tune(bufferevent_disable(s, side))
SetTimeout(r, w) == Live /\ Tune(bufferevent_settimeout(s, r, w))
SetWatermark(side, w) ==
    Live /\ side \in s.sides /\ Tune(bufferevent_setwatermark(s, side, w))
Free == Live /\ s' = bufferevent_free(s)

Does == {"nothing", "free"}
Some == 1..2
Loop ==
    \/ \E side \in Sides : Ready(side) \/ Expires(side)
    \/ \E does \in Does :
        \/ Reads(does) \/ \E k \in Some : Writes(k, does)
        \/ \E res \in {"again", "error"} : ReadFails(res, does) \/ WriteFails(res, does)
        \/ WriteFails("eof", does)
        \/ \E side \in Sides : TimedOut(side, does)
Calls ==
    \/ \E k \in Some : Read(k) \/ Write(k) \/ Printf(k)
    \/ Readline \/ Take \/ WriteBuffer \/ Free
    \/ \E side \in Sides : Enable(side) \/ Disable(side)
    \/ \E t \in BOOLEAN : SetTimeout(t, t)
    \/ \E side \in Sides, w \in Watermarks : SetWatermark(side, w)
Peer == PeerCloses \/ \E k \in Some : Arrives(k)
Next == Loop \/ Calls \/ Peer
Spec == Init /\ [][Next]_vars

\* The event loop reports a pending descriptor that is ready, and runs the
\* active events (module EventLoop, ActiveServed).
Due(side) == /\ Live /\ \/ s.ev[side].act # "no"
                        \/ s.ev[side].ins /\ (side = "read" => s.rx # <<>>)
Served(side) ==
    \/ Ready(side)
    \/ \E does \in Does : \/ TimedOut(side, does)
                          \/ side = "read" /\ Reads(does)
                          \/ side = "read" /\ \E res \in {"again", "error"} : ReadFails(res, does)
                          \/ side = "write" /\ \E k \in Some : Writes(k, does)
                          \/ side = "write" /\ \E res \in {"again", "error", "eof"} : WriteFails(res, does)
FairSpec == /\ Spec
            /\ \A side \in Sides : []<>~Due(side) \/ []<><<Served(side)>>_vars

-----------------------------------------------------------------------------
(* Properties                                                              *)

\* The buffers keep the streams: what came from the peer and was not taken
\* yet is in the input buffer and the descriptor, in order; what the
\* application wrote and was not sent is in the output; its own buffer has
\* what it moved there - whatever was aligned, grown, drained or swapped.  No
\* byte is stored outside a block, and nothing of a bufferevent that a
\* callback freed is used.
StreamsWhole ==
    /\ s.fault = "none" /\ ~s.input.over /\ ~s.output.over /\ ~s.mine.over
    /\ Live => /\ Content(s.input) \o s.rx = s.inq
               /\ Content(s.output) = s.outq
               /\ Content(s.mine) = s.held

WithLoop(side) == s.ev[side].ins \/ s.ev[side].act # "no"

\* No transfer is forgotten.  While reading is enabled, did not fail and the
\* input is below the high watermark, the read event is with the loop - after
\* watermarks moved, reading was switched off and on and the buffer drained;
\* and output waits only while writing is disabled or after an error.
TransfersScheduled ==
    Live =>
        /\ /\ "read" \in s.enabled /\ ~s.failed["read"]
           /\ s.high = 0 \/ s.input.off < s.high
           => WithLoop("read")
        /\ "write" \in s.enabled /\ ~s.failed["write"] /\ s.output.off > 0
           => WithLoop("write")

\* What is written is sent, or the application hears of an error, stops
\* writing or frees the bufferevent.
OutputDrains ==
    (Live /\ s.outq # <<>>) ~>
        (~Live \/ s.outq = <<>> \/ s.failed["write"] \/ "write" \notin s.enabled)

=============================================================================
