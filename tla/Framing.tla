------------------------------ MODULE Framing ------------------------------
(***************************************************************************)
(* How bytes become commands.  line_proto.c cuts the serial stream at line *)
(* ends, ble_frame.c cuts the writes of a BLE client at announced lengths. *)
(* Both are fed whatever piece of the stream a callback was given, keep    *)
(* what is incomplete, and hand on whole commands; both refuse what does   *)
(* not fit their buffer without losing their place in the stream.          *)
(*                                                                         *)
(* A reader is a record with the commands it handed on in "out".           *)
(***************************************************************************)
EXTENDS Integers, SequencesExt

CONSTANTS
    BufSize,    \* LINE_PROTO_BUF_SIZE and BLE_FRAME_BUF_SIZE, the NUL included
    ByteBase,   \* how many values a byte has, 256 in the code
    Eol         \* '\n' and '\r', which line_proto_feed() treats alike

ASSUME FramingAssumption == BufSize \in Nat \ {0} /\ ByteBase \in Nat

(***************************************************************************)
(* line_proto.c, a byte at a time.                                         *)
(***************************************************************************)
LineInit == [buf |-> <<>>, overflowed |-> FALSE, out |-> <<>>]

\* A slip: the overflow is forgotten at the line end, and the part that fitted goes on.
LineEndCut(lp) ==
    [LineInit EXCEPT !.out = IF lp.buf = <<>> THEN lp.out ELSE Append(lp.out, lp.buf)]

LineEnd(lp) ==
    [LineInit EXCEPT !.out = IF lp.overflowed \/ lp.buf = <<>> THEN lp.out
                                                       ELSE Append(lp.out, lp.buf)]

LineChar(lp, c) ==
    IF Len(lp.buf) + 1 < BufSize THEN [lp EXCEPT !.buf = Append(@, c)]
                                 ELSE [lp EXCEPT !.overflowed = TRUE]

LineByte(lp, c) == IF c \in Eol THEN LineEnd(lp) ELSE LineChar(lp, c)

LineFeed(lp, data) ==
    LET fed[k \in 0..Len(data)] == IF k = 0 THEN lp ELSE LineByte(fed[k - 1], data[k])
    IN  fed[Len(data)]

(***************************************************************************)
(* ble_frame.c: each pass of its loop takes one header byte, or as much of *)
(* a payload, kept or refused, as this write still holds.                  *)
(***************************************************************************)
FrameInit == [hdr |-> <<>>, want |-> 0, buf |-> <<>>, discard |-> 0, out |-> <<>>]

\* A slip: what is left of a refused message outlives the reset.
FrameResetMidway(f) == [FrameInit EXCEPT !.out = f.out, !.discard = f.discard]

FrameReset(f) == [FrameInit EXCEPT !.out = f.out]

Announced(hdr) == hdr[1] + ByteBase * hdr[2]

\* What the next pass finds.
Rest(data, n) == SubSeq(data, n + 1, Len(data))

\* A slip: a refused payload ends with the write it began in.
SwallowWrite(f, data) == [frame |-> [f EXCEPT !.discard = 0],
                          rest |-> Rest(data, Min({Len(data), f.discard}))]

Swallow(f, data) ==
    LET n == Min({Len(data), f.discard})
    IN  [frame |-> [f EXCEPT !.discard = @ - n], rest |-> Rest(data, n)]

TakeHeader(f, data) ==
    LET hdr == Append(f.hdr, Head(data))
        want == Announced(hdr)
        frame == IF Len(hdr) < 2 THEN [f EXCEPT !.hdr = hdr]
                 ELSE IF want = 0 THEN [f EXCEPT !.hdr = <<>>]
                 ELSE IF want > BufSize - 1 THEN [f EXCEPT !.hdr = <<>>, !.discard = want]
                 ELSE [f EXCEPT !.hdr = hdr, !.want = want, !.buf = <<>>]
    IN  [frame |-> frame, rest |-> Tail(data)]

TakePayload(f, data) ==
    LET n == Min({Len(data), f.want - Len(f.buf)})
        buf == f.buf \o SubSeq(data, 1, n)
    IN  [frame |-> IF Len(buf) = f.want THEN [FrameInit EXCEPT !.out = Append(f.out, buf)]
                                        ELSE [f EXCEPT !.buf = buf],
         rest |-> Rest(data, n)]

Pass(f, data) ==
    IF f.discard > 0 THEN Swallow(f, data)
    ELSE IF Len(f.hdr) < 2 THEN TakeHeader(f, data)
    ELSE TakePayload(f, data)

\* Every pass takes a byte at least, so there are no more of them than bytes.
FrameFeed(f, data) ==
    LET passes[k \in 0..Len(data)] ==
            IF k = 0 THEN [frame |-> f, rest |-> data]
            ELSE IF passes[k - 1].rest = <<>> THEN passes[k - 1]
            ELSE Pass(passes[k - 1].frame, passes[k - 1].rest)
    IN  passes[Len(data)].frame

-----------------------------------------------------------------------------
(***************************************************************************)
(* What the two readers are meant to compute, from the whole stream.       *)
(***************************************************************************)
IsCommand(m) == Len(m) \in 1..BufSize - 1

\* The stretch that a line end ends: from behind the line end before it.
LineAt(s, end) ==
    SubSeq(s, Max({0} \cup {i \in 1..end - 1 : s[i] \in Eol}) + 1, end - 1)

\* At each place of a stream, the lines before it, those that are empty or too long left out.
Lines(s) ==
    LET lines[k \in 0..Len(s)] ==
            IF k = 0 THEN <<>>
            ELSE IF s[k] \in Eol /\ IsCommand(LineAt(s, k)) THEN Append(lines[k - 1], LineAt(s, k))
            ELSE lines[k - 1]
    IN  lines

\* The messages from each place of a stream on, one after the other, those that are empty
\* or too long left out.
Messages(s) ==
    LET messages[i \in 0..Len(s)] ==
            LET n == Announced(SubSeq(s, i + 1, i + 2))
                m == SubSeq(s, i + 3, i + 2 + n)
            IN  IF Len(s) < i + 2 THEN <<>>
                ELSE IF Len(s) < i + 2 + n THEN <<>>
                ELSE (IF IsCommand(m) THEN <<m>> ELSE <<>>) \o messages[i + 2 + n]
    IN  messages
=============================================================================
