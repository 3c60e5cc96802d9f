------------------------------- MODULE Digest -------------------------------
(***************************************************************************)
(* The buffering of sha256.c, which hashes an update chunk by chunk as it  *)
(* is written.  A context keeps the bytes that do not fill a block yet;    *)
(* "blocks" records what was given to sha256_transform(), whose rounds are *)
(* left out: two contexts with the same blocks have the same digest.       *)
(***************************************************************************)
EXTENDS Integers, SequencesExt

CONSTANTS
    BlockLen,   \* bytes in a block, 64 in the code
    LenBytes    \* bytes of the length that ends the last block, 8 in the code

ASSUME DigestAssumption == BlockLen \in Nat /\ LenBytes \in 1..BlockLen

Mark == 128
Zero == 0
Stale == -1

DigestInit == [buf |-> <<>>, total |-> 0, blocks |-> <<>>]

Transform(ctx, block) == [ctx EXCEPT !.blocks = Append(@, block)]

\* Completes the block that is waiting, if one is.
TopUp(ctx, data) ==
    LET take == IF ctx.buf = <<>> THEN 0 ELSE Min({Len(data), BlockLen - Len(ctx.buf)})
        full == ctx.buf \o SubSeq(data, 1, take)
    IN  [ctx |-> IF Len(full) = BlockLen THEN [Transform(ctx, full) EXCEPT !.buf = <<>>]
                                         ELSE [ctx EXCEPT !.buf = full],
         rest |-> SubSeq(data, take + 1, Len(data))]

\* Blocks straight out of the data, and the remainder kept.
WholeBlocks(ctx, data) ==
    LET n == Len(data) \div BlockLen
        block(k) == SubSeq(data, (k - 1) * BlockLen + 1, k * BlockLen)
        rest == SubSeq(data, n * BlockLen + 1, Len(data))
    IN  [ctx EXCEPT !.blocks = @ \o [k \in 1..n |-> block(k)],
                    !.buf = IF rest = <<>> THEN @ ELSE rest]

DigestUpdate(ctx, data) ==
    LET topped == TopUp([ctx EXCEPT !.total = @ + Len(data)], data)
    IN  WholeBlocks(topped.ctx, topped.rest)

\* A slip: no room for the length in this block, and the zeros stop there anyway.
ZerosNeededHere(buflen) ==
    IF buflen <= BlockLen - LenBytes THEN BlockLen - LenBytes - buflen ELSE BlockLen - buflen

ZerosNeeded(buflen) ==
    IF buflen <= BlockLen - LenBytes THEN BlockLen - LenBytes - buflen
                                     ELSE BlockLen - LenBytes + BlockLen - buflen

DigestFinal(ctx) ==
    LET marked == DigestUpdate(ctx, <<Mark>>)
        zeros == [i \in 1..ZerosNeeded(Len(marked.buf)) |-> Zero]
        padded == DigestUpdate(marked, zeros)
        \* memcpy() to a fixed place of the buffer, whatever is before it
        buf == padded.buf \o [i \in 1..BlockLen |-> Stale]
        last == SubSeq(buf, 1, BlockLen - LenBytes) \o [i \in 1..LenBytes |-> ctx.total]
    IN  Transform(padded, last).blocks

-----------------------------------------------------------------------------
\* The standard's padding: a mark, the fewest zeros that leave room for the length
\* at the end of a block, and the length.
Padded(bytes) ==
    LET zeros == CHOOSE z \in 0..BlockLen - 1 :
                    (Len(bytes) + 1 + z + LenBytes) % BlockLen = 0
    IN  bytes \o <<Mark>> \o [i \in 1..zeros |-> Zero] \o [i \in 1..LenBytes |-> Len(bytes)]

BlocksOf(bytes) ==
    [k \in 1..Len(Padded(bytes)) \div BlockLen |->
        SubSeq(Padded(bytes), (k - 1) * BlockLen + 1, k * BlockLen)]
=============================================================================
