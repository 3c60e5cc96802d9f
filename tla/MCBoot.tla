------------------------------- MODULE MCBoot -------------------------------
(***************************************************************************)
(* Boot on a small instance.  Its notes are interchangeable: no action and *)
(* no property names one.                                                  *)
(***************************************************************************)
EXTENDS Boot, TLC

NoteSymmetry == Permutations(Notes)
=============================================================================
