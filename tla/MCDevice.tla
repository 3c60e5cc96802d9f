------------------------------ MODULE MCDevice ------------------------------
(* A spent note in front of a confirmed one, and one more that a host may   *)
(* import: pruning the first moves the others.                              *)
EXTENDS Device

CONSTANTS n1, n2

MCStored == <<[id |-> n1, state |-> "spent"], [id |-> n2, state |-> "confirmed"]>>
MCCommands == {Import, [do |-> "export", id |-> n2], [do |-> "mark_spent", id |-> n2],
               [do |-> "delete", id |-> n2], Prune}
=============================================================================
