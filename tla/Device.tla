------------------------------- MODULE Device -------------------------------
(***************************************************************************)
(* The tasks of the device around one vault: app_main bringing them up     *)
(* (main.c), the two transport tasks dispatching commands (serial_cdc.c,   *)
(* ble_gatt.c), and ui_task (ui_task.c), which shows every approval and    *)
(* lets the owner browse.  They meet in cmd_lock, vault_lock and the       *)
(* request queue of ui_task.                                               *)
(*                                                                         *)
(* Five commands stand for the rest: import_secret for the ones that ask   *)
(* nobody, export_secret for the one that checks the note before it asks,  *)
(* mark_spent and delete for the gated ones that change a note or move the *)
(* notes behind it, prune_spent for the one whose approval is of a number. *)
(* The serial task is that of the USB or of the UART transport.  Flash is  *)
(* in module Vault; a note here is its id and its state, in the order of   *)
(* g_notes.                                                                *)
(***************************************************************************)
EXTENDS Naturals, Sequences, FiniteSets

CONSTANTS
    NoteIds,    \* ids, never given twice (see FreshId of module Vault)
    Stored,     \* the notes flash holds at power-up
    Commands,   \* bound: the commands that hosts send
    Nil         \* no task, no note

NoteState == {"confirmed", "spent"}
Note == [id: NoteIds, state: NoteState]

\* The id of an import is drawn by the device, and a prune is of every spent
\* note; the others name a note.
Import == [do |-> "import"]
Prune == [do |-> "prune"]
Command == [do: {"export", "mark_spent", "delete"}, id: NoteIds] \cup {Import, Prune}

ASSUME DeviceAssumption ==
    /\ Stored \in Seq(Note)
    /\ \A i, j \in DOMAIN Stored : Stored[i].id = Stored[j].id => i = j
    /\ Nil \notin NoteIds \cup Note \cup {"serial", "ble"}
    /\ Commands \subseteq Command

Transports == {"serial", "ble"}

VARIABLES
    stage,      \* how far app_main() has come
    notes,      \* g_notes
    used,       \* ids given so far
    cmdLock,    \* the holder of cmd_lock
    vaultLock,  \* the transport holding vault_lock; ui_task's sections are steps
    source,     \* g_source
    task,       \* each transport task: where it is and its command
    requests,   \* g_request_q
    reply,      \* what ui_task has put in a transport's response queue
    ui,         \* ui_task
    acked,      \* history: notes an import was answered ok with, not deleted since
    overrun     \* history: an outcome card came down before the command acted

locks == <<cmdLock, vaultLock, source>>
vars == <<stage, notes, used, locks, task, requests, reply, ui, acked, overrun>>


\* ble and vault: ble_gatt_start() done, vault_init() done, and so on.
Stages == {"boot", "ble", "vault", "serial", "ui"}

\* The card is the note as it was read for the screen, count the number of
\* notes on the card of a prune; early (history) is whether they were read
\* before vault_init().
Request == [from: Transports, card: Note \cup {Nil}, count: Nat, early: BOOLEAN]
Reply == [answer: {"none", "yes", "no"}, card: Note \cup {Nil}, count: Nat, early: BOOLEAN]
NoReply == [answer |-> "none", card |-> Nil, count |-> 0, early |-> FALSE]

Ui == [at: {"off", "loop", "prompt", "hold", "turn", "draw"},
       mode: {"idle", "browse", "qr"},
       index: Nat, selected: NoteIds \cup {Nil},   \* browse_index, browse_id
       card: NoteIds \cup {Nil},                   \* the note on the screen
       qr: NoteIds \cup {Nil},                     \* the note whose secret is
       request: Request \cup {Nil}]                \* req

TypeOK ==
    /\ stage \in Stages
    /\ notes \in Seq(Note) /\ \A i, j \in DOMAIN notes : notes[i].id = notes[j].id => i = j
    /\ used \subseteq NoteIds /\ acked \subseteq used
    /\ cmdLock \in Transports \cup {Nil} /\ vaultLock \in Transports \cup {Nil}
    /\ source \in Transports \cup {"local"}
    /\ task \in [Transports -> [at: {"idle", "lock", "vault", "wait", "release"},
                                cmd: Command \cup {Nil}]]
    /\ requests \in Seq(Request) /\ Len(requests) <= 1
    /\ reply \in [Transports -> Reply]
    /\ ui \in Ui /\ (ui.at = "prompt" => ui.request \in Request)
    /\ overrun \in BOOLEAN

HasNote(id) == \E i \in DOMAIN notes : notes[i].id = id
Lookup(id) == IF HasNote(id) THEN notes[CHOOSE i \in DOMAIN notes : notes[i].id = id]
              ELSE Nil
InState(id, s) == HasNote(id) /\ Lookup(id).state = s
Spent == {i \in DOMAIN notes : notes[i].state = "spent"}
Goto(t, at) == task' = [task EXCEPT ![t].at = at]
Finish(t) == task' = [task EXCEPT ![t] = [at |-> "release", cmd |-> Nil]]

-----------------------------------------------------------------------------
(***************************************************************************)
(* A transport task.                                                       *)
(***************************************************************************)
LinkUp(t) == IF t = "ble" THEN stage # "boot" ELSE stage \in {"serial", "ui"}

\* Mutant: the source is announced before cmd_lock is held.
ArriveAnnounced(t, c) ==
    /\ LinkUp(t) /\ task[t].at = "idle"
    /\ task' = [task EXCEPT ![t] = [at |-> "lock", cmd |-> c]]
    /\ source' = t
    /\ UNCHANGED <<stage, notes, used, cmdLock, vaultLock, requests, reply, ui, acked, overrun>>

Arrive(t, c) ==
    /\ LinkUp(t) /\ task[t].at = "idle"
    /\ task' = [task EXCEPT ![t] = [at |-> "lock", cmd |-> c]]
    /\ UNCHANGED <<stage, notes, used, locks, requests, reply, ui, acked, overrun>>

AcquireCmd(t) ==
    /\ task[t].at = "lock" /\ cmdLock = Nil
    /\ cmdLock' = t /\ source' = t
    /\ Goto(t, "vault")
    /\ UNCHANGED <<stage, notes, used, vaultLock, requests, reply, ui, acked, overrun>>

Question(t) ==
    LET c == task[t].cmd IN
    [from |-> t, card |-> IF c = Prune THEN Nil ELSE Lookup(c.id),
     count |-> IF c = Prune THEN Cardinality(Spent) ELSE 0, early |-> stage = "ble"]

\* Mutant: cmd_lock is let go while the owner is asked.
AskUnlocked(t) ==
    /\ requests' = Append(requests, Question(t))
    /\ Goto(t, "wait")
    /\ cmdLock' = Nil
    /\ UNCHANGED <<notes, used, vaultLock, source, acked>>

\* The confirm hooks of main.c: the note or the number is read, vault_lock released and the
\* request queued; cmd_lock stays held.
Ask(t) ==
    /\ requests' = Append(requests, Question(t))
    /\ Goto(t, "wait")
    /\ UNCHANGED <<notes, used, locks, acked>>

\* Mutant: the id drawn is not compared with the ones in use.
ImportSecretAnyId(t) ==
    /\ \E id \in NoteIds :
          /\ notes' = Append(notes, [id |-> id, state |-> "confirmed"])
          /\ used' = used \cup {id} /\ acked' = acked \cup {id}
    /\ vaultLock' = t
    /\ Finish(t)
    /\ UNCHANGED <<cmdLock, source, requests>>

ImportSecret(t) ==
    /\ \E id \in NoteIds \ used :
          /\ notes' = Append(notes, [id |-> id, state |-> "confirmed"])
          /\ used' = used \cup {id} /\ acked' = acked \cup {id}
    /\ vaultLock' = t
    /\ Finish(t)
    /\ UNCHANGED <<cmdLock, source, requests>>

\* not_found, invalid_state, a vault that is full, no memory left to ask, or
\* a prune of no notes: the command is over with nothing changed.
Refuse(t) ==
    /\ vaultLock' = t
    /\ Finish(t)
    /\ UNCHANGED <<notes, used, cmdLock, source, requests, acked>>

\* Nobody is asked for a secret that could not be had.
ExportSecret(t) == Refuse(t) \/ (InState(task[t].cmd.id, "confirmed") /\ Ask(t))

\* With nothing to prune the answer is ok at once, and no prompt.
PruneSpent(t) == Refuse(t) \/ (Spent # {} /\ Ask(t))

\* dispatcher_handle() as far as its answer or its question.
Dispatch(t) ==
    LET c == task[t].cmd IN
    /\ task[t].at = "vault" /\ vaultLock = Nil
    /\ CASE c = Import -> IF used = NoteIds THEN Refuse(t) ELSE ImportSecret(t)
         [] c.do = "export" -> ExportSecret(t)
         [] c = Prune -> PruneSpent(t)
         [] OTHER -> Ask(t) \/ Refuse(t)
    /\ UNCHANGED <<stage, reply, ui, overrun>>

\* The notes at the places in S, moved up in their order as remove_at() and
\* vault_prune_spent() do.
Rank(S, i) == Cardinality({j \in S : j <= i})
Kept(S) == [k \in 1 .. Cardinality(S) |-> notes[CHOOSE i \in S : Rank(S, i) = k]]

\* What an approved command does: each looks its note up again by id, or for
\* the notes that are spent by then.
MarkSpent(id) ==
    /\ InState(id, "confirmed")
    /\ notes' = [i \in DOMAIN notes |-> IF notes[i].id = id
                                        THEN [notes[i] EXCEPT !.state = "spent"]
                                        ELSE notes[i]]
    /\ UNCHANGED acked

Delete(id) ==
    /\ InState(id, "spent")
    /\ notes' = Kept({i \in DOMAIN notes : notes[i].id # id})
    /\ acked' = acked \ {id}

Sweep ==
    /\ notes' = Kept(DOMAIN notes \ Spent)
    /\ acked' = acked \ {notes[i].id : i \in Spent}

\* Mutant: a note is deleted in whatever state it is.
ActAnyState(c) ==
    CASE c.do = "mark_spent" /\ InState(c.id, "confirmed") -> MarkSpent(c.id)
      [] c.do = "delete" /\ HasNote(c.id) ->
            /\ notes' = Kept({i \in DOMAIN notes : notes[i].id # c.id})
            /\ acked' = acked \ {c.id}
      [] c = Prune -> Sweep
      [] OTHER -> UNCHANGED <<notes, acked>>

Act(c) ==
    CASE c.do = "mark_spent" /\ InState(c.id, "confirmed") -> MarkSpent(c.id)
      [] c.do = "delete" /\ InState(c.id, "spent") -> Delete(c.id)
      [] c = Prune -> Sweep
      [] OTHER -> UNCHANGED <<notes, acked>>

\* The answer is here and vault_lock is held again.
Answered(t) ==
    /\ task[t].at = "wait" /\ reply[t] # NoReply /\ vaultLock = Nil
    /\ vaultLock' = t
    /\ IF reply[t].answer = "yes" THEN Act(task[t].cmd) ELSE UNCHANGED <<notes, acked>>
    /\ reply' = [reply EXCEPT ![t] = NoReply]
    /\ Finish(t)
    /\ UNCHANGED <<stage, used, cmdLock, source, requests, ui, overrun>>

Release(t) ==
    /\ task[t].at = "release"
    /\ cmdLock' = Nil /\ vaultLock' = Nil
    /\ task' = [task EXCEPT ![t] = [at |-> "idle", cmd |-> Nil]]
    /\ UNCHANGED <<stage, notes, used, source, requests, reply, ui, acked, overrun>>

-----------------------------------------------------------------------------
(***************************************************************************)
(* ui_task.  A step that takes vault_lock can be taken while it is free.   *)
(***************************************************************************)
ChangeUi == UNCHANGED <<stage, notes, used, locks, task, acked>>
Browsing == ui.at = "turn"
Resting(u) == [u EXCEPT !.at = "loop", !.mode = "idle", !.index = 0, !.selected = Nil,
                        !.card = Nil, !.qr = Nil, !.request = Nil]

\* A request takes priority over browsing, and the screen with it.
Serve ==
    /\ ui.at = "loop" /\ requests # <<>>
    /\ LET r == Head(requests) IN
       ui' = [ui EXCEPT !.at = "prompt", !.request = r, !.qr = Nil,
                        !.card = IF r.card = Nil THEN Nil ELSE r.card.id]
    /\ requests' = Tail(requests)
    /\ ChangeUi /\ UNCHANGED <<reply, overrun>>

\* service_remote_confirm(), module Approval: yes, or no answer counted as no.
Answer(a) ==
    /\ ui.at = "prompt"
    /\ reply' = [reply EXCEPT ![ui.request.from] =
                     [answer |-> a, card |-> ui.request.card, count |-> ui.request.count,
                      early |-> ui.request.early]]
    /\ ui' = [ui EXCEPT !.at = "hold", !.request = Nil]
    /\ ChangeUi /\ UNCHANGED <<requests, overrun>>

\* Mutant: no outcome card, the screen goes back to resting at once.
HoldOverAtOnce ==
    /\ ui.at = "hold" /\ vaultLock = Nil
    /\ ui' = Resting(ui)
    /\ ChangeUi /\ UNCHANGED <<requests, reply, overrun>>

\* OUTCOME_HOLD_MS is over.  The command that was answered has acted long
\* since, unless its task was kept from running for 1.8 s: an overrun.
HoldOver ==
    /\ ui.at = "hold" /\ vaultLock = Nil
    /\ overrun' = (overrun \/ \E t \in Transports : reply[t] # NoReply)
    /\ ui' = Resting(ui)
    /\ ChangeUi /\ UNCHANGED <<requests, reply>>

\* No request is waiting: the rest of this turn of the loop, which a request
\* that comes in now does not interrupt, is the owner's.
Turn ==
    /\ ui.at = "loop" /\ requests = <<>>
    /\ ui' = [ui EXCEPT !.at = "turn"]
    /\ ChangeUi /\ UNCHANGED <<requests, reply, overrun>>

\* Nothing was pressed and no deadline is over.
Quiet ==
    /\ Browsing
    /\ ui' = [ui EXCEPT !.at = "loop"]
    /\ ChangeUi /\ UNCHANGED <<requests, reply, overrun>>

\* Mutant: a tap is looked at before the request queue is.
TapFirst ==
    /\ ui.at \in {"loop", "turn"} /\ ui.mode \in {"idle", "browse"} /\ vaultLock = Nil
    /\ \E i \in DOMAIN notes :
          /\ notes[i].state = "confirmed"
          /\ ui' = [ui EXCEPT !.at = "draw", !.mode = "browse", !.index = i,
                              !.selected = notes[i].id]
    /\ ChangeUi /\ UNCHANGED <<requests, reply, overrun>>

\* find_confirmed(): some confirmed note, whichever way the owner steps.
Tap ==
    /\ Browsing /\ ui.mode \in {"idle", "browse"} /\ vaultLock = Nil
    /\ \E i \in DOMAIN notes :
          /\ notes[i].state = "confirmed"
          /\ ui' = [ui EXCEPT !.at = "draw", !.mode = "browse", !.index = i,
                              !.selected = notes[i].id]
    /\ ChangeUi /\ UNCHANGED <<requests, reply, overrun>>

TapNothing ==
    /\ Browsing /\ ui.mode = "browse" /\ vaultLock = Nil
    /\ \A i \in DOMAIN notes : notes[i].state # "confirmed"
    /\ ui' = [ui EXCEPT !.at = "draw", !.index = 0, !.selected = Nil]
    /\ ChangeUi /\ UNCHANGED <<requests, reply, overrun>>

\* draw_browse_note(), which reads the note at browse_index once more.
Draw ==
    /\ ui.at = "draw" /\ vaultLock = Nil
    /\ ui' = [ui EXCEPT !.at = "loop", !.qr = Nil,
                        !.card = IF ui.index \in DOMAIN notes THEN notes[ui.index].id ELSE Nil]
    /\ ChangeUi /\ UNCHANGED <<requests, reply, overrun>>

\* Mutant: the note now at browse_index is the one disclosed.
UnveiledByIndex == IF ui.index \in DOMAIN notes THEN notes[ui.index].id ELSE Nil

\* The note unveil() discloses: the one selected, found by its id.
Unveiled == ui.selected

\* The chord, or button 1 for the next form; either fails if the note is not
\* there to be exported any more, or in no form that fits the screen.
Unveil ==
    /\ Browsing /\ ui.mode \in {"browse", "qr"} /\ vaultLock = Nil
    /\ \/ /\ InState(Unveiled, "confirmed")
          /\ ui' = [ui EXCEPT !.mode = "qr", !.at = "loop", !.qr = Unveiled]
       \/ ui' = [ui EXCEPT !.mode = "browse", !.at = "draw", !.qr = Nil]
    /\ ChangeUi /\ UNCHANGED <<requests, reply, overrun>>

Dismiss ==
    /\ Browsing /\ ui.mode = "qr"
    /\ ui' = [ui EXCEPT !.mode = "browse", !.at = "draw"]
    /\ ChangeUi /\ UNCHANGED <<requests, reply, overrun>>

\* The browse or QR deadline, or the screen going to sleep.
GoIdle ==
    /\ Browsing /\ ui.mode # "idle" /\ vaultLock = Nil
    /\ ui' = Resting(ui)
    /\ ChangeUi /\ UNCHANGED <<requests, reply, overrun>>

UiTask == Serve \/ (\E a \in {"yes", "no"} : Answer(a)) \/ HoldOver \/ Turn \/ Quiet
          \/ Tap \/ TapNothing \/ Draw \/ Unveil \/ Dismiss \/ GoIdle

-----------------------------------------------------------------------------
(***************************************************************************)
(* app_main(), after ui_task_init() has made the request queue.            *)
(***************************************************************************)
Bringup(from, to) ==
    /\ stage = from /\ stage' = to
    /\ UNCHANGED <<used, locks, task, requests, reply, acked, overrun>>

StartBle == Bringup("boot", "ble") /\ UNCHANGED <<notes, ui>>

\* vault_init() takes no lock; until it runs there is no storage behind the
\* vault and nothing stops a note from being made in RAM.
InitVault == Bringup("ble", "vault") /\ notes' = Stored /\ UNCHANGED ui
StartSerial == Bringup("vault", "serial") /\ UNCHANGED <<notes, ui>>
StartUi == Bringup("serial", "ui") /\ ui' = [ui EXCEPT !.at = "loop"] /\ UNCHANGED notes

AppMain == StartBle \/ InitVault \/ StartSerial \/ StartUi

Init ==
    /\ stage = "boot" /\ notes = <<>> /\ used = {Stored[i].id : i \in DOMAIN Stored}
    /\ cmdLock = Nil /\ vaultLock = Nil /\ source = "local"
    /\ task = [t \in Transports |-> [at |-> "idle", cmd |-> Nil]]
    /\ requests = <<>> /\ reply = [t \in Transports |-> NoReply]
    /\ ui = [at |-> "off", mode |-> "idle", index |-> 0, selected |-> Nil, card |-> Nil,
             qr |-> Nil, request |-> Nil]
    /\ acked = {} /\ overrun = FALSE

Next ==
    \/ \E t \in Transports :
          \/ \E c \in Commands : Arrive(t, c)
          \/ AcquireCmd(t) \/ Dispatch(t) \/ Answered(t) \/ Release(t)
    \/ UiTask
    \/ AppMain

\* Every task is scheduled, and a prompt ends by its deadline.  A lock that is
\* free again and again is had at some point: cmd_lock by a transport, and
\* vault_lock by ui_task, whose own sections (each a step) never keep it from
\* the transport that holds cmd_lock.  Nothing is assumed of hosts or owner.
Fairness ==
    /\ \A t \in Transports : /\ SF_vars(AcquireCmd(t))
                             /\ WF_vars(Dispatch(t) \/ Answered(t) \/ Release(t))
    /\ WF_vars(Serve \/ Quiet \/ \E a \in {"yes", "no"} : Answer(a))
    /\ SF_vars(HoldOver \/ Draw)
    /\ WF_vars(AppMain)

Spec == Init /\ [][Next]_vars
FairSpec == Spec /\ Fairness

-----------------------------------------------------------------------------
(***************************************************************************)
(* Properties.                                                             *)
(***************************************************************************)
\* The dispatcher's globals belong to one command at a time, the wait for the
\* owner included: g_source is the transport whose command is being handled.
SourceIsCaller ==
    \A t \in Transports : task[t].at \in {"vault", "wait", "release"} =>
        cmdLock = t /\ source = t

Destroyed(i) == \A j \in DOMAIN notes' : notes'[j] # notes[i]
ApprovedBy(t) == Answered(t) /\ reply[t].answer = "yes"

\* The card showed this note as it is, or the number of spent notes, of which
\* it is one, that go in this step.
Shown(t, i) ==
    \/ reply[t].card = notes[i]
    \/ /\ task[t].cmd = Prune /\ i \in Spent
       /\ reply[t].count = Cardinality({j \in DOMAIN notes : Destroyed(j)})

\* A note held changes state or goes only by a command the owner approved
\* with that very note, as it still is, on the screen, or, when spent, with
\* the right number of notes there; commands that came in before the vault
\* was loaded apart.
ActsAsShown ==
    [][\A i \in DOMAIN notes : stage' = stage /\ Destroyed(i) =>
          \E t \in Transports : ApprovedBy(t) /\ (Shown(t, i) \/ reply[t].early)]_vars

\* A secret on the screen is that of the note the owner selected, however the
\* notes have moved since.
DisclosedIsSelected == ui.qr # Nil => ui.qr = ui.selected

\* The chord discloses the note whose card the owner was looking at, as long
\* as outcome cards outlast the commands they are about.
DisclosedIsShown ==
    [][ui'.qr \notin {Nil, ui.qr} /\ ~overrun => ui'.qr = ui.card]_vars

\* Every command is done with: no lock, queue or prompt is waited for forever.
EveryCommandEnds ==
    \A t \in Transports : task[t].at # "idle" ~> task[t].at = "idle"

\* Seen as one custodian: the command of whoever holds cmd_lock, and the one
\* question about it wherever it is on its way to the owner and back.
HeldNotes == {notes[i] : i \in DOMAIN notes}
InFlight(t) == IF requests # <<>> THEN Head(requests)
               ELSE IF ui.at = "prompt" THEN ui.request ELSE reply[t]
CmdInHand == IF cmdLock = Nil THEN Nil ELSE task[cmdLock].cmd
Phase ==
    IF cmdLock = Nil THEN "idle"
    ELSE CASE task[cmdLock].at = "vault" -> "taken"
           [] task[cmdLock].at = "release" -> "done"
           [] OTHER -> IF reply[cmdLock].answer = "none" THEN "asked"
                       ELSE reply[cmdLock].answer
Card == IF Phase \in {"idle", "taken", "done"} \/ InFlight(cmdLock).early THEN Nil
        ELSE [note |-> InFlight(cmdLock).card, count |-> InFlight(cmdLock).count]

C == INSTANCE Custodian WITH
        Callers <- Transports, OnFlash <- {Stored[i] : i \in DOMAIN Stored},
        held <- HeldNotes, loaded <- stage \notin {"boot", "ble"},
        caller <- cmdLock, cmd <- CmdInHand, phase <- Phase, card <- Card

\* The two transports, the two locks, the queues and the screen task together
\* do what one custodian does who takes one command at a time, puts it to the
\* owner once, and obeys a yes while what was on the card is still so.
ImplementsCustodian == C!Spec

\* dispatcher.c: refusing is recoverable, destroying something the owner was
\* never shown is not.
NothingUnshownGoes ==
    [][\A i \in DOMAIN notes : stage' = stage /\ Destroyed(i) =>
          \E t \in Transports : ApprovedBy(t) /\ Shown(t, i)]_vars

\* main.c: no note is made that would vanish, rather than one held in RAM
\* only.  A note whose import was answered ok is still there.
AckedIsHeld == \A id \in acked : HasNote(id)
=============================================================================
