----------------------------- MODULE Custodian -----------------------------
(***************************************************************************)
(* What the device promises its owner, with no tasks, locks, queues or     *)
(* screen in sight: one custodian of the notes, who takes one command at a *)
(* time from whoever sends it.                                             *)
(*                                                                         *)
(* A command that touches a note is put to the owner once, on a card that  *)
(* says what it is about; it gets one verdict, and is obeyed only on a yes *)
(* and while the card still says what would be done.  Before the notes are *)
(* loaded there is nothing to put on a card, and a yes is taken blind.     *)
(***************************************************************************)
EXTENDS Naturals, FiniteSets

CONSTANTS NoteIds, Callers, Commands, OnFlash, Nil

VARIABLES
    held,       \* the notes
    loaded,     \* whether they are those of flash
    caller,     \* whose command is in hand
    cmd,        \* the command, until it is done
    phase,      \* how far it is; a verdict is "yes" or "no"
    card        \* what the owner was shown of it

vars == <<held, loaded, caller, cmd, phase, card>>

Phase == {"idle", "taken", "asked", "yes", "no", "done"}

Spent == {n \in held : n.state = "spent"}
Named(c) == {n \in held : n.id = c.id}

\* What a command is about: a note, or for a prune a number of notes.
Sheet(c) ==
    IF c.do = "prune" THEN [note |-> Nil, count |-> Cardinality(Spent)]
    ELSE [note |-> IF Named(c) = {} THEN Nil ELSE CHOOSE n \in Named(c) : TRUE,
          count |-> 0]

\* The notes once a command is obeyed.
Fresh(c) == Named(c) \ Spent
Outcome(c) ==
    CASE c.do = "mark_spent" -> (held \ Fresh(c)) \cup
                                {[n EXCEPT !.state = "spent"] : n \in Fresh(c)}
      [] c.do = "delete" -> held \ (Named(c) \cap Spent)
      [] c.do = "prune" -> held \ Spent
      [] OTHER -> held

Init ==
    /\ held = {} /\ ~loaded
    /\ caller = Nil /\ cmd = Nil /\ phase = "idle" /\ card = Nil

\* The custodian comes to the notes of before; what was given in till then
\* was never written down.
Load ==
    /\ ~loaded /\ loaded' /\ held' = OnFlash
    /\ UNCHANGED <<caller, cmd, phase, card>>

Take(t) ==
    /\ phase = "idle"
    /\ caller' = t /\ cmd' \in Commands /\ phase' = "taken"
    /\ UNCHANGED <<held, loaded, card>>

Done == phase' = "done" /\ cmd' = Nil /\ card' = Nil /\ UNCHANGED <<loaded, caller>>

Refuse == phase = "taken" /\ UNCHANGED held /\ Done

Import ==
    /\ phase = "taken" /\ cmd.do = "import"
    /\ \E id \in NoteIds : /\ \A n \in held : n.id # id
                           /\ held' = held \cup {[id |-> id, state |-> "confirmed"]}
    /\ Done

Ask ==
    /\ phase = "taken" /\ cmd.do # "import"
    /\ phase' = "asked" /\ card' = IF loaded THEN Sheet(cmd) ELSE Nil
    /\ UNCHANGED <<held, loaded, caller, cmd>>

Decide ==
    /\ phase = "asked" /\ phase' \in {"yes", "no"}
    /\ UNCHANGED <<held, loaded, caller, cmd, card>>

Obey ==
    /\ phase = "yes" /\ card \in {Nil, Sheet(cmd)}
    /\ held' = Outcome(cmd)
    /\ Done

Desist == phase = "no" /\ UNCHANGED held /\ Done

Answer ==
    /\ phase = "done" /\ phase' = "idle" /\ caller' = Nil
    /\ UNCHANGED <<held, loaded, cmd, card>>

Next == \/ \E t \in Callers : Take(t)
        \/ Load \/ Refuse \/ Import \/ Ask \/ Decide \/ Obey \/ Desist \/ Answer

Spec == Init /\ [][Next]_vars
=============================================================================
