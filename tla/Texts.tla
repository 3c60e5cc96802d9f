------------------------------- MODULE Texts -------------------------------
(***************************************************************************)
(* The conversions of Codecs, Numbers and QrCode, which take their input   *)
(* whole: they are given each stream before any of it is fed.              *)
(***************************************************************************)
EXTENDS Stream, Codecs, Numbers, QrCode

\* The stream as bytes, and as text in the alphabets of the decoders.
AsBytes == [i \in DOMAIN input |-> <<0, 130, 255>>[input[i] + 1]]
AsBase64 == [i \in DOMAIN input |-> <<63, Pad, Foreign>>[input[i] + 1]]
AsHex == [i \in DOMAIN input |-> <<0, 10, Foreign>>[input[i] + 1]]
AsDigits == [i \in DOMAIN input |-> <<0, 1, 5>>[input[i] + 1]]
AsNumber == [i \in DOMAIN input |-> <<0, 6, 10>>[input[i] + 1]]
AsJson == [i \in DOMAIN input |-> <<"open", "quote", "escape">>[input[i] + 1]]
AsBrackets == [i \in DOMAIN input |-> <<"open", "close", "quote">>[input[i] + 1]]

Order == <<2, 1, 2>>    \* stands for the order of the group, in three limbs

(***************************************************************************)
(* Text is decoded to what it was encoded from or refused, by readers that *)
(* never hold more of it than the limits they were given, and a QR's text  *)
(* passes the check a wallet makes of it (base64.c, hex.c, bech32.c,       *)
(* json.c, derive.c).                                                      *)
(***************************************************************************)
CodecsAreExact ==
    pos = 0 =>
        /\ Base64IsExact(AsBytes, AsBase64)
        /\ HexIsExact(AsBytes, AsHex, [i \in 1..MaxInput |-> i])
        /\ GroupsAreExact(AsBytes)
        /\ Len(input) <= 2 => ChecksumIsSound(AsBytes)
        /\ ReadingIsExact(AsDigits) /\ ReadingIsExact(AsNumber)
        /\ DepthIsBounded(AsJson) /\ DepthIsBounded(AsBrackets)
        /\ Len(input) = 6 => KeysAreExact(SubSeq(input, 1, 3), SubSeq(input, 4, 6), Order)

\* A host name and an amount for each stream, and the panels of the two boards.
ANote == [host |-> ValueIn(3, input) % 64, digits |-> 1 + (ValueIn(3, input) % 20)]
Panels == {[w |-> s[1], h |-> s[2], mem |-> m] :
              s \in {<<240, 135>>, <<320, 170>>}, m \in {6000, 20000, 120000}}

(***************************************************************************)
(* What an owner decides from is what the note is: the amount on a card is *)
(* neither rounded nor cut short, and the code on the panel is all of a    *)
(* code for all of the URL, each form of which button 1 can reach          *)
(* (note_display.c, note_url.c, qr_capacity.c, qr_display.c).              *)
(***************************************************************************)
ShownIsWhatIs ==
    pos = 0 =>
        /\ ValueIn(10, AsDigits) <= MaxInt => AmountIsExact(ValueIn(10, AsDigits))
        /\ Len(input) <= 4 => \A panel \in Panels : /\ CodeIsWhole(ANote, panel)
                                                    /\ EveryFormIsReached(ANote, panel)
=============================================================================
