----------------------------- MODULE MCListing -----------------------------
(***************************************************************************)
(* An instance of Listing for TLC: notes of two sizes, with and without a  *)
(* signature, and a buffer for about two of them.                          *)
(***************************************************************************)
EXTENDS Listing, TLC

CONSTANTS n1, n2, n3, n4

MCSize == [n \in Notes |-> IF n \in {n1, n3} THEN 20 ELSE 35]

Symmetry == {p \in Permutations(Notes) : \A n \in Notes : MCSize[p[n]] = MCSize[n]}
=============================================================================
