------------------------------- MODULE Stream -------------------------------
(***************************************************************************)
(* A stream of bytes, whatever it is, comes in pieces, wherever they are   *)
(* cut.  The readers of Framing and the digest of Digest are fed the same  *)
(* pieces.                                                                 *)
(***************************************************************************)
EXTENDS Framing, Digest

CONSTANTS
    Symbols,    \* what a stream is made of: 0..2
    MaxInput    \* bound on the length of a stream

ASSUME StreamAssumption == Symbols \subseteq Nat /\ MaxInput \in Nat

VARIABLES
    input,      \* the stream
    pos,        \* how much of it was fed
    since,      \* where ble_frame_reset() was last called
    kept,       \* the messages from before that
    line,       \* line_proto_t
    frame,      \* ble_frame_t
    digest      \* sha256_ctx_t

stream == <<input, pos, since, kept, line, frame, digest>>

StreamInit ==
    /\ input \in UNION {[1..n -> Symbols] : n \in 0..MaxInput}
    /\ pos = 0 /\ since = 0 /\ kept = <<>>
    /\ line = LineInit /\ frame = FrameInit /\ digest = DigestInit

\* A callback with the next n bytes of the stream.
Feed ==
    \E n \in 1..Len(input) - pos :
        LET piece == SubSeq(input, pos + 1, pos + n)
        IN  /\ pos' = pos + n
            /\ line' = LineFeed(line, piece)
            /\ frame' = FrameFeed(frame, piece)
            /\ digest' = DigestUpdate(digest, piece)
            /\ UNCHANGED <<input, since, kept>>

\* The link went, or bytes of it did: what comes next begins a message.
Break ==
    /\ since = 0 /\ pos > 0
    /\ since' = pos
    /\ kept' = frame.out
    /\ frame' = FrameReset(frame)
    /\ UNCHANGED <<input, pos, line, digest>>

StreamNext == Feed \/ Break
StreamSpec == StreamInit /\ [][StreamNext]_stream

-----------------------------------------------------------------------------
Fed == SubSeq(input, 1, pos)

\* Each reader handed on exactly the commands of the stream that are complete and fit.
CommandsAreWhole ==
    /\ line.out = Lines(input)[pos]
    /\ frame.out = kept \o Messages(SubSeq(input, since + 1, pos))[0]

\* The blocks that are hashed are those of the bytes, and not of the chunks they came in.
DigestIsOfTheBytes == DigestFinal(digest) = BlocksOf(Fed)

(***************************************************************************)
(* However a stream is cut into callbacks, commands come out of it whole,  *)
(* in order and once each, those after one that did not fit, was empty or  *)
(* lost its link half-way too; and the digest of an update is the same     *)
(* (line_proto_feed, ble_frame_feed, sha256_update, sha256_final).         *)
(***************************************************************************)
PiecesDoNotMatter == CommandsAreWhole /\ DigestIsOfTheBytes

=============================================================================
