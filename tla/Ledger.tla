------------------------------- MODULE Ledger -------------------------------
(***************************************************************************)
(* What the vault promises a host, with no RAM, no flash layout and no     *)
(* crash in sight: for every note id, the state the next boot will find it *)
(* in (durable) and the last state an ok reply put it in (promise).        *)
(*                                                                         *)
(* A note comes into being before it is promised, its durable state may    *)
(* run ahead of the promise but never falls behind it, and a note promised *)
(* as money (CONFIRMED) is let go only once it is durably SPENT.           *)
(***************************************************************************)
CONSTANTS Ids

VARIABLES durable, promise, cut
vars == <<durable, promise, cut>>

State == {"pending", "confirmed", "spent"}
NotBefore(t, s) == s = "pending" \/ t = s \/ t = "spent"

TypeOK ==
    /\ durable \in [Ids -> State \cup {"absent"}]
    /\ promise \in [Ids -> State \cup {"none", "gone"}]
    /\ cut \subseteq Ids

Init ==
    /\ durable = [id \in Ids |-> "absent"]
    /\ promise = [id \in Ids |-> "none"]
    /\ cut = {}

Promised(id) == promise[id] \in State

\* No new cut, and a promised note that was cut is not forgotten to be.
SameCut(id) == /\ id \in cut' => id \in cut
               /\ id \in cut /\ Promised(id) => id \in cut'

\* Flash takes the note in, or moves it to another state that still honours
\* what was promised.
Store(id) ==
    /\ promise[id] # "gone"
    /\ Promised(id) => NotBefore(durable'[id], promise[id])
    /\ durable'[id] \in State
    /\ promise'[id] = promise[id]
    /\ id \in cut' => id \in cut

\* An ok reply: the note is on flash in the state told or a later one, and no
\* promise is ever taken back this way.
Acknowledge(id) ==
    /\ durable'[id] \in State /\ promise'[id] \in State
    /\ NotBefore(durable'[id], promise'[id])
    /\ Promised(id) => NotBefore(promise'[id], promise[id])
    /\ id \notin cut'

\* A note nobody is owed leaves flash; only then may a reply say it is gone.
Erase(id) ==
    /\ ~Promised(id)
    /\ durable'[id] = "absent"
    /\ promise'[id] \in {promise[id], "gone"}
    /\ SameCut(id)

\* The host has the device let go of a note, or the id is drawn afresh.
Release(id) ==
    /\ promise[id] = "confirmed" => durable[id] = "spent"
    /\ promise'[id] = "none"
    /\ durable'[id] = durable[id]
    /\ SameCut(id)

\* The index had no room for a note that was not readable.
Displace(id) ==
    /\ id \in cut' /\ durable'[id] = "absent"
    /\ promise'[id] = promise[id]

Unmoved(id) ==
    /\ durable'[id] = durable[id] /\ promise'[id] = promise[id]
    /\ SameCut(id)

Life(id) == \/ Store(id) \/ Acknowledge(id) \/ Erase(id) \/ Release(id)
            \/ Displace(id) \/ Unmoved(id)

Next == \A id \in Ids : Life(id)

Spec == Init /\ [][Next]_vars
=============================================================================
