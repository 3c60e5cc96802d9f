------------------------------ MODULE Numbers ------------------------------
(***************************************************************************)
(* Amounts and keys as numbers: json.c reads an amount digit by digit out  *)
(* of a command that it first found not to be nested too deeply,           *)
(* note_display.c shows it in groups of three, and derive.c adds keys limb *)
(* by limb without ever branching on one.                                  *)
(***************************************************************************)
EXTENDS Integers, SequencesExt

CONSTANTS
    MaxInt,     \* UINT64_MAX
    MaxDepth,   \* JSON_MAX_DEPTH
    AmountBuf,  \* NOTE_AMOUNT_BUF, the NUL included
    LimbBase    \* 2^32: how many values a limb of derive.c has

Refused == -1
Blank == 10     \* no digit

\* The number that digits, the most significant first, stand for in a base.
ValueIn(base, digits) == FoldLeft(LAMBDA v, d : base * v + d, 0, digits)

-----------------------------------------------------------------------------
(***************************************************************************)
(* raw_u64_at_top_level(), from the first digit on: digits up to the first *)
(* character that is none, of which only ',', '}' and spaces may follow.   *)
(***************************************************************************)
IsDigit(c) == c \in 0..9

\* A slip: the product is checked, and the sum is not.
TakeDigitUnsummed(val, digit) ==
    IF val = Refused \/ val > MaxInt \div 10 THEN Refused ELSE (10 * val + digit) % (MaxInt + 1)

TakeDigit(val, digit) ==
    CASE val = Refused -> Refused
      [] val # Refused /\ val > MaxInt \div 10 -> Refused
      [] val # Refused /\ val <= MaxInt \div 10 ->
            IF 10 * val > MaxInt - digit THEN Refused ELSE 10 * val + digit

ReadU64(chars) ==
    LET n == Max({k \in 0..Len(chars) : \A i \in 1..k : IsDigit(chars[i])})
    IN  IF n = 0 \/ n < Len(chars) THEN Refused
        ELSE FoldLeft(TakeDigit, 0, SubSeq(chars, 1, n))

\* An amount is read exactly or not at all.
ReadingIsExact(chars) ==
    ReadU64(chars) = IF /\ chars # <<>>
                        /\ \A i \in DOMAIN chars : IsDigit(chars[i])
                        /\ ValueIn(10, chars) <= MaxInt
                     THEN ValueIn(10, chars) ELSE Refused

-----------------------------------------------------------------------------
(***************************************************************************)
(* depth_within_limit(): a scan that knows strings and escapes, ahead of a *)
(* parser whose stack grows with every bracket it goes into.  Characters   *)
(* are "open", "close", "quote" and "escape", whatever bracket it is.      *)
(***************************************************************************)
ScanInit == [depth |-> 0, deepest |-> 0, inStr |-> FALSE, skip |-> FALSE]

\* A slip: an escaped quote ends the string.
ScanCharEscapeless(s, c) ==
    CASE s.inStr -> [s EXCEPT !.inStr = c # "quote"]
      [] ~ s.inStr /\ c = "quote" -> [s EXCEPT !.inStr = TRUE]
      [] ~ s.inStr /\ c = "open" -> [s EXCEPT !.depth = @ + 1,
                                              !.deepest = Max({@, s.depth + 1})]
      [] ~ s.inStr /\ c = "close" -> [s EXCEPT !.depth = Max({@ - 1, 0})]
      [] OTHER -> s

ScanChar(s, c) ==
    CASE s.skip -> [s EXCEPT !.skip = FALSE]
      [] ~ s.skip /\ s.inStr -> [s EXCEPT !.skip = c = "escape", !.inStr = c # "quote"]
      [] ~ s.skip /\ ~ s.inStr /\ c = "quote" -> [s EXCEPT !.inStr = TRUE]
      [] ~ s.skip /\ ~ s.inStr /\ c = "open" -> [s EXCEPT !.depth = @ + 1,
                                                          !.deepest = Max({@, s.depth + 1})]
      [] ~ s.skip /\ ~ s.inStr /\ c = "close" -> [s EXCEPT !.depth = Max({@ - 1, 0})]
      [] OTHER -> s

DepthWithinLimit(text) == FoldLeft(ScanChar, ScanInit, text).deepest <= MaxDepth

\* A quote counts unless an odd number of escapes stands before it, inside a string.
LOCAL Escapes(text, i) ==
    i - 1 - Max({0} \cup {k \in 1..i - 1 : text[k] # "escape"})

LOCAL InString(text, i) ==
    Cardinality({k \in 1..i - 1 : text[k] = "quote" /\ Escapes(text, k) % 2 = 0}) % 2 = 1

LOCAL Level(text, i) ==
    LET count(c) == Cardinality({k \in 1..i : text[k] = c /\ ~ InString(text, k)})
    IN  count("open") - count("close")

\* Where a parser gives up: at an escape outside a string, or a bracket that closes nothing.
LOCAL Stops(text) ==
    {i \in DOMAIN text : ~ InString(text, i) /\ (text[i] = "escape" \/ Level(text, i) < 0)}

\* The deepest a recursive parser gets.
Nesting(text) ==
    Max({0} \cup {Level(text, i) : i \in 1..Min({Len(text) + 1} \cup Stops(text)) - 1})

\* What the parser is given never nests deeper than the limit, and text that it reads
\* to its end within the limit is not refused.
DepthIsBounded(text) ==
    /\ DepthWithinLimit(text) => Nesting(text) <= MaxDepth
    /\ (Stops(text) = {} /\ Nesting(text) <= MaxDepth) => DepthWithinLimit(text)

-----------------------------------------------------------------------------
(***************************************************************************)
(* note_display.c: what an approval is given from is the amount the note   *)
(* carries, in sats if that is exact and in msat if not.                   *)
(***************************************************************************)
\* The digits from the right, a blank before every third one.
RECURSIVE Backwards(_, _)
Backwards(value, digits) ==
    IF value = 0 THEN <<>>
    ELSE (IF digits > 0 /\ digits % 3 = 0 THEN <<Blank>> ELSE <<>>)
         \o <<value % 10>> \o Backwards(value \div 10, digits + 1)

\* What of a text a buffer for an amount holds.
LOCAL Held(text) == SubSeq(text, 1, Min({Len(text), AmountBuf - 1}))

\* A slip: a value of no digits is left empty.
GroupedNonzero(value) == Held(Reverse(Backwards(value, 0)))

Grouped(value) == Held(IF value = 0 THEN <<0>> ELSE Reverse(Backwards(value, 0)))

AmountParts(msat) ==
    IF msat % 1000 # 0 THEN [num |-> Grouped(msat), unit |-> "msat"]
    ELSE [num |-> Grouped(msat \div 1000), unit |-> IF msat = 1000 THEN "sat" ELSE "sats"]

\* Nothing is rounded or cut off, and the blanks stand where thousands end.
AmountIsExact(msat) ==
    LET parts == AmountParts(msat)
        digits == SelectSeq(parts.num, LAMBDA c : c # Blank)
        left(i) == Len(parts.num) - i
    IN  /\ digits # <<>>
        /\ ValueIn(10, digits) * (IF parts.unit = "msat" THEN 1 ELSE 1000) = msat
        /\ \A i \in DOMAIN parts.num : (parts.num[i] = Blank) <=> left(i) % 4 = 3

-----------------------------------------------------------------------------
(***************************************************************************)
(* derive.c.  A number is its limbs, the most significant first.           *)
(***************************************************************************)
LOCAL Limbwise(a, b, op(_, _, _)) ==
    FoldLeft(LAMBDA acc, k :
                LET i == Len(a) + 1 - k
                    t == op(a[i], b[i], acc.carry)
                IN  [limbs |-> <<t % LimbBase>> \o acc.limbs, carry |-> IF t \in 0..LimbBase - 1
                                                                   THEN 0 ELSE 1],
             [limbs |-> <<>>, carry |-> 0], [k \in DOMAIN a |-> k])

Plus(a, b) == Limbwise(a, b, LAMBDA x, y, c : x + y + c)
Minus(a, b) == Limbwise(a, b, LAMBDA x, y, c : x - y - c)

Lt(a, b) == Minus(a, b).carry = 1
IsZero(a) == \A i \in DOMAIN a : a[i] = 0

\* A slip: a sum that overflows its limbs is taken for one below n.
AddModNoCarry(a, b, n) ==
    LET sum == Plus(a, b)
        reduced == Minus(sum.limbs, n)
    IN  IF reduced.carry = 0 THEN reduced.limbs ELSE sum.limbs

AddMod(a, b, n) ==
    LET sum == Plus(a, b)
        reduced == Minus(sum.limbs, n)
    IN  IF sum.carry = 1 \/ reduced.carry = 0 THEN reduced.limbs ELSE sum.limbs

\* derive_child_hardened(): lefts[k] is the left half of the HMAC at the k-th hardened
\* index that is tried, and the walk stops at the first that makes a key.
DeriveChild(kpar, lefts, n) ==
    LET keys == {k \in DOMAIN lefts : Lt(lefts[k], n) /\ ~ IsZero(AddMod(lefts[k], kpar, n))}
    IN  IF keys = {} THEN Refused ELSE AddMod(lefts[Min(keys)], kpar, n)

\* For keys below n: the sum is the sum modulo n, and a child is the first usable one.
KeysAreExact(a, b, n) ==
    LET value(x) == ValueIn(LimbBase, x)
        lefts == [k \in 1..3 |-> [b EXCEPT ![Len(b)] = (@ + k - 1) % LimbBase]]
        usable == {k \in 1..3 : /\ value(lefts[k]) < value(n)
                                /\ (value(lefts[k]) + value(a)) % value(n) # 0}
        child == DeriveChild(a, lefts, n)
    IN  /\ Lt(a, b) = (value(a) < value(b))
        /\ (Lt(a, n) /\ Lt(b, n)) => value(AddMod(a, b, n)) = (value(a) + value(b)) % value(n)
        /\ Lt(a, n) => IF usable = {} THEN child = Refused
                       ELSE value(child) = (value(lefts[Min(usable)]) + value(a)) % value(n)
=============================================================================
