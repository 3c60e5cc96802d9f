------------------------------- MODULE QrCode -------------------------------
(***************************************************************************)
(* From a note to the QR that gives it away: the forms of its URL          *)
(* (note_url.c), the smallest version that holds one (qr_capacity.c), its  *)
(* place on the panel in the memory there is (qr_display.c), and the next  *)
(* form that renders (ui_task.c).  A text is its length: what could go     *)
(* wrong is that it does not fit, and is cut.                              *)
(***************************************************************************)
EXTENDS Integers, SequencesExt

CONSTANTS
    UrlBuf,     \* UNVEIL_URL_BUF, the NUL included
    Bech32Url   \* BECH32_URL_MAX, the same

MaxVersion == 20
QuietZone == 4
QrBufLen == 1400
Formats == 0..2     \* NOTE_URL_LUD17, NOTE_URL_CLAIM, NOTE_URL_BECH32
Empty == 0

\* 64 characters of secret and what stands around them.
Lud17Len(host, digits) == 9 + host + 4 + 64 + 8 + digits
ClaimLen(host, digits) == 36 + 3 + host + 4 + 64 + 3 + digits
HttpsLen(host, digits) == 8 + host + 4 + 64 + 8 + digits
Bech32Len(len) == 5 + 1 + (8 * len + 4) \div 5 + 6

\* What note_url_build_as() leaves in the buffer: the whole URL or nothing.
Url(format, host, digits) ==
    LET len == CASE format = 0 -> Lud17Len(host, digits)
                 [] format = 1 -> ClaimLen(host, digits)
                 [] format = 2 -> Bech32Len(HttpsLen(host, digits))
        fits == /\ len < UrlBuf
                /\ format = 2 => HttpsLen(host, digits) < Bech32Url /\ len <= 512
    IN  IF host > 0 /\ fits THEN len ELSE Empty

CapacityEccL == <<17, 32, 53, 78, 106, 134, 154, 192, 230, 271,
                  321, 367, 425, 458, 520, 586, 644, 718, 792, 858>>

\* A slip: the first version that is not too small by the one before it.
VersionForLengthLoose(len) ==
    LET holds == {v \in 1..MaxVersion : CapacityEccL[v] + 1 >= len}
    IN  IF holds = {} THEN 0 ELSE Min(holds)

VersionForLength(len) ==
    LET holds == {v \in 1..MaxVersion : CapacityEccL[v] >= len}
    IN  IF holds = {} THEN 0 ELSE Min(holds)

QrSize(version) == 17 + 4 * version
SquareModules(size) == size + 2 * QuietZone
BufferSize(version) == (QrSize(version) * QrSize(version) + 7) \div 8

\* A slip: the square is scaled to one side of the panel alone.
ScaleForWidth(size, w, h) == w \div SquareModules(size)

ScaleFor(size, w, h) == (IF w < h THEN w ELSE h) \div SquareModules(size)

Origin(px, w, h) == <<(w - px) \div 2, (h - px) \div 2>>

\* The module under a pixel of the square, negative in the quiet zone.
ModuleAt(pixel, scale) == pixel \div scale - QuietZone

NotShown == [shown |-> FALSE]

\* qr_display_show(): mem is the largest block of DMA memory that can be had.
Show(len, w, h, mem) ==
    LET version == VersionForLength(len)
        modules == SquareModules(QrSize(version))
        affordable == {s \in 1..ScaleFor(QrSize(version), w, h) :
                          2 * (modules * s) * (modules * s) <= mem}
        px == modules * Max(affordable)
    IN  IF len = Empty \/ version = 0 THEN NotShown
        ELSE IF BufferSize(version) > QrBufLen \/ affordable = {} THEN NotShown
        ELSE [shown |-> TRUE, version |-> version, scale |-> Max(affordable), px |-> px,
              x0 |-> Origin(px, w, h)[1],
              \* the caption takes the height that is left over
              y0 |-> IF h - px > 0 THEN 0 ELSE Origin(px, w, h)[2]]

Unveil(format, note, panel) ==
    Show(Url(format, note.host, note.digits), panel.w, panel.h, panel.mem)

\* unveil_next_format(): the form that button 1 goes to, or the one that stays.
NextFormat(format, note, panel) ==
    LET step(k) == (format + k) % 3
        renders == {k \in 1..3 : Unveil(step(k), note, panel).shown}
    IN  IF renders = {} THEN format ELSE step(Min(renders))

-----------------------------------------------------------------------------
\* What is on the panel is a whole code of a whole URL, its quiet zone with it.
CodeIsWhole(note, panel) ==
    \A format \in Formats :
        LET qr == Unveil(format, note, panel)
            whole == CASE format = 0 -> Lud17Len(note.host, note.digits)
                       [] format = 1 -> ClaimLen(note.host, note.digits)
                       [] format = 2 -> Bech32Len(HttpsLen(note.host, note.digits))
        IN  qr.shown =>
                /\ CapacityEccL[qr.version] >= whole
                /\ qr.x0 \in 0..panel.w - qr.px /\ qr.y0 \in 0..panel.h - qr.px
                /\ {ModuleAt(p, qr.scale) : p \in 0..qr.px - 1}
                       = -QuietZone..QrSize(qr.version) + QuietZone - 1

\* Whatever form is showing, button 1 reaches every other one that would render.
EveryFormIsReached(note, panel) ==
    LET shows == {f \in Formats : Unveil(f, note, panel).shown}
        next(f) == NextFormat(f, note, panel)
    IN  \A f \in shows : {f, next(f), next(next(f))} = shows
=============================================================================
