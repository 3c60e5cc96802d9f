------------------------------ MODULE MCVault ------------------------------
(***************************************************************************)
(* Instances of Vault for TLC.  Ids and secrets are interchangeable.       *)
(***************************************************************************)
EXTENDS Vault, TLC

\* Every fault but one: a blob that flash holds can be read at every boot.
Readable == AllFaults \ {"blob"}

\* The only fault: a blob cannot be read at a boot.
BadRead == {"blob"}

Symmetry == Permutations(Ids) \cup Permutations(Secrets)
=============================================================================
