------------------------------- MODULE MCOta -------------------------------
(* Two chunk values; images of two chunks, and an installed one of one.    *)
EXTENDS Ota

CONSTANTS a, b

MCSigned == {<<a, b>>, <<b, b>>}
MCFactory == <<a>>
MCImages == MCSigned \cup {MCFactory, <<b, a>>}
=============================================================================
