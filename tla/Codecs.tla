------------------------------- MODULE Codecs -------------------------------
(***************************************************************************)
(* The conversions between bytes and text: base64.c and hex.c, which decode*)
(* what an update sends, and bech32.c, which encodes what a QR shows, next *)
(* to definitions of what they are to compute.  A character is its value in*)
(* its alphabet: Pad is '=', Foreign one that the alphabet does not have.  *)
(***************************************************************************)
EXTENDS Integers, SequencesExt, Bitwise

LOCAL Drop(s, n) == SubSeq(s, n + 1, Len(s))

Pad == 64
Foreign == 65

-----------------------------------------------------------------------------
\* Bytes as the string of their bits, cut into groups of w bits, the last one
\* filled up with zeros: what base64 (w = 6) and bech32 (w = 5) both write.
BitAt(bytes, i) ==
    IF i \div 8 < Len(bytes) THEN (bytes[i \div 8 + 1] \div 2^(7 - (i % 8))) % 2 ELSE 0

Groups(bytes, w) ==
    [k \in 1..(8 * Len(bytes) + w - 1) \div w |->
        FoldLeft(LAMBDA v, j : 2 * v + BitAt(bytes, w * (k - 1) + j - 1), 0,
                 [j \in 1..w |-> j])]

\* The bytes that are complete in groups of w bits.
Ungroup(groups, w) ==
    LET bit(i) == (groups[i \div w + 1] \div 2^(w - 1 - (i % w))) % 2
    IN  [k \in 1..(w * Len(groups)) \div 8 |->
            FoldLeft(LAMBDA v, j : 2 * v + bit(8 * (k - 1) + j - 1), 0, [j \in 1..8 |-> j])]

-----------------------------------------------------------------------------
(***************************************************************************)
(* base64.c                                                                *)
(***************************************************************************)
LOCAL Sextets(v) == <<v \div 2^18, (v \div 2^12) % 64, (v \div 2^6) % 64, v % 64>>

RECURSIVE Base64Encode(_)
Base64Encode(in) ==
    CASE in = <<>>    -> <<>>
      [] Len(in) = 1  -> SubSeq(Sextets(in[1] * 2^16), 1, 2) \o <<Pad, Pad>>
      [] Len(in) = 2  -> SubSeq(Sextets(in[1] * 2^16 + in[2] * 2^8), 1, 3) \o <<Pad>>
      [] OTHER -> Sextets(in[1] * 2^16 + in[2] * 2^8 + in[3]) \o Base64Encode(Drop(in, 3))

Base64Pads(in) == Cardinality({i \in {Len(in) - 1, Len(in)} : in[i] = Pad})

\* A slip: padding is looked for anywhere in the last two places, and not counted.
Base64AcceptsAll(in) ==
    /\ Len(in) % 4 = 0
    /\ \A i \in 1..Len(in) - 2 : in[i] \in 0..63

Base64Accepts(in) ==
    /\ Len(in) % 4 = 0
    /\ in # <<>> => \A i \in 1..Len(in) - Base64Pads(in) : in[i] \in 0..63

\* The bytes of one group of four characters.
LOCAL Base64Quad(q) ==
    LET c(i) == IF q[i] = Pad THEN 0 ELSE q[i]
        v == c(1) * 2^18 + c(2) * 2^12 + c(3) * 2^6 + c(4)
    IN  <<v \div 2^16>> \o (IF q[3] = Pad THEN <<>> ELSE <<(v \div 2^8) % 256>>)
                        \o (IF q[4] = Pad THEN <<>> ELSE <<v % 256>>)

Base64Decode(in) ==
    FlattenSeq([k \in 1..Len(in) \div 4 |-> Base64Quad(SubSeq(in, 4 * k - 3, 4 * k))])

\* Characters are base64 when all but at most two '=' at the end are of its alphabet.
IsBase64(in) ==
    /\ Len(in) % 4 = 0
    /\ \E n \in 0..Len(in) : /\ Len(in) - n <= 2
                             /\ \A i \in 1..n : in[i] \in 0..63
                             /\ \A i \in n + 1..Len(in) : in[i] = Pad

Base64IsExact(bytes, chars) ==
    /\ Base64Accepts(Base64Encode(bytes)) /\ Base64Decode(Base64Encode(bytes)) = bytes
    /\ SelectSeq(Base64Encode(bytes), LAMBDA c : c # Pad) = Groups(bytes, 6)
    /\ Base64Accepts(chars) = IsBase64(chars)
    /\ IsBase64(chars) =>
           Base64Decode(chars) = Ungroup(SelectSeq(chars, LAMBDA c : c # Pad), 6)

-----------------------------------------------------------------------------
(***************************************************************************)
(* hex.c: out is what the caller's buffer holds afterwards.                *)
(***************************************************************************)
HexEncode(in) == FlattenSeq([i \in DOMAIN in |-> <<in[i] \div 16, in[i] % 16>>])

\* A slip: each byte is stored as it is decoded, and the call fails at the bad one.
HexDecodeAsItGoes(in, before) ==
    LET good == {n \in 0..Len(in) \div 2 : \A i \in 1..2 * n : in[i] # Foreign}
        stored == Max(good)
    IN  IF Len(in) % 2 # 0 THEN [ok |-> FALSE, out |-> before]
        ELSE [ok |-> 2 * stored = Len(in),
              out |-> [i \in 1..stored |-> in[2 * i - 1] * 16 + in[2 * i]] \o Drop(before, stored)]

HexDecode(in, before) ==
    IF Len(in) % 2 # 0 \/ Foreign \in ToSet(in) THEN [ok |-> FALSE, out |-> before]
    ELSE [ok |-> TRUE, out |-> [i \in 1..Len(in) \div 2 |-> in[2 * i - 1] * 16 + in[2 * i]]
                               \o Drop(before, Len(in) \div 2)]

\* A digest or signature off the wire is either decoded whole or left alone.
HexIsExact(bytes, chars, before) ==
    /\ HexDecode(HexEncode(bytes), <<>>) = [ok |-> TRUE, out |-> bytes]
    /\ LET d == HexDecode(chars, before)
       IN  IF d.ok THEN HexEncode(SubSeq(d.out, 1, Len(chars) \div 2)) = chars
                   ELSE d.out = before

-----------------------------------------------------------------------------
(***************************************************************************)
(* bech32.c: the cursor that cuts bytes into five bits at a time, and the  *)
(* checksum over what it returns.                                          *)
(***************************************************************************)
LOCAL Cursor == [i |-> 0, acc |-> 0, bits |-> 0]

\* The 32 bits of acc are more than are ever read back: 16 do.
LOCAL Load(g, bytes) ==
    IF g.bits < 5 /\ g.i < Len(bytes)
    THEN [i |-> g.i + 1, acc |-> (g.acc * 256 + bytes[g.i + 1]) % 2^16, bits |-> g.bits + 8]
    ELSE g

\* A slip: the bits left over at the end are dropped, and not padded.
RECURSIVE GroupsFromUnflushed(_, _)
GroupsFromUnflushed(cursor, bytes) ==
    LET g == Load(cursor, bytes)
    IN  IF g.bits < 5 THEN <<>>
        ELSE <<(g.acc \div 2^(g.bits - 5)) % 32>>
             \o GroupsFromUnflushed([g EXCEPT !.bits = @ - 5], bytes)

\* Every group groups_next() returns from here on.
RECURSIVE GroupsFrom(_, _)
GroupsFrom(cursor, bytes) ==
    LET g == Load(cursor, bytes)
    IN  CASE g.bits >= 5 -> <<(g.acc \div 2^(g.bits - 5)) % 32>>
                            \o GroupsFrom([g EXCEPT !.bits = @ - 5], bytes)
          [] g.bits \in 1..4 -> <<(g.acc * 2^(5 - g.bits)) % 32>>
          [] OTHER -> <<>>

GroupCount(bytes) == (8 * Len(bytes) + 4) \div 5

LOCAL Generator == <<996825010, 642813549, 513874426, 1027748829, 705979059>>

PolymodStep(chk, value) ==
    FoldLeft(LAMBDA c, i : IF (chk \div 2^(24 + i)) % 2 = 1 THEN c ^^ Generator[i] ELSE c,
             ((chk % 2^25) * 32) ^^ value, <<1, 2, 3, 4, 5>>)

Polymod(values) == FoldLeft(PolymodStep, 1, values)

\* The human-readable part, a sequence of lowercase codes, as the checksum sees it.
HrpExpand(hrp) == [i \in DOMAIN hrp |-> hrp[i] \div 32] \o <<0>>
                  \o [i \in DOMAIN hrp |-> hrp[i] % 32]

Checksum(hrp, groups) ==
    LET chk == Polymod(HrpExpand(hrp) \o groups \o <<0, 0, 0, 0, 0, 0>>) ^^ 1
    IN  [i \in 1..6 |-> (chk \div 2^(5 * (6 - i))) % 32]

Bech32Encode(hrp, bytes) ==
    LET groups == GroupsFrom(Cursor, bytes) IN groups \o Checksum(hrp, groups)

\* What a wallet does first with a code it scanned.
Bech32Verifies(hrp, groups) == Polymod(HrpExpand(hrp) \o groups) = 1

Lnurl == <<108, 110, 117, 114, 108>>

\* The groups are the bits, as many as were announced, and the bytes come back.
GroupsAreExact(bytes) ==
    LET groups == GroupsFrom(Cursor, bytes)
    IN  groups = Groups(bytes, 5) /\ Len(groups) = GroupCount(bytes) /\ Ungroup(groups, 5) = bytes

\* A code verifies, and one with a character of it misread does not.
ChecksumIsSound(bytes) ==
    LET code == Bech32Encode(Lnurl, bytes)
    IN  /\ Bech32Verifies(Lnurl, code)
        /\ \A i \in DOMAIN code :
              ~ Bech32Verifies(Lnurl, [code EXCEPT ![i] = (@ + 1) % 32])
=============================================================================
