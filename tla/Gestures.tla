------------------------------ MODULE Gestures ------------------------------
(***************************************************************************)
(* One owner, two buttons, one screen: the loop of ui_task_fn() in         *)
(* src/src/ui/ui_task.c with the gesture machine of proto/button_fsm.c,    *)
(* the health record of proto/input_health.c (both behind ui/buttons.c)    *)
(* and the sleeping screen of proto/screen_sleep.c.                        *)
(*                                                                         *)
(* Time goes in polls of the loop, 30 ms.  Levels are read, never waited   *)
(* for: between two reads a button may be let go and pressed again unseen. *)
(* Which notes are browsed is module Device's subject, and how a prompt    *)
(* comes to its verdict is Approval's; here a prompt reads the buttons and *)
(* is granted only after confirm was seen up in it and is down.            *)
(***************************************************************************)
EXTENDS Naturals

CONSTANTS
    ChordPolls,     \* BUTTON_FSM_CHORD_HOLD_US, in polls
    BrowseTimeout,  \* BROWSE_IDLE_TIMEOUT_MS
    QrTimeout,      \* QR_SHOWN_TIMEOUT_MS
    SleepTimeout    \* SCREEN_SLEEP_MS

ASSUME GesturesAssumption ==
    {ChordPolls, BrowseTimeout, QrTimeout, SleepTimeout} \subseteq Nat \ {0}

VARIABLES
    ready,      \* display_ready(), settled at boot
    level,      \* the buttons that were down when last read
    released,   \* g_health: the buttons seen released since boot
    fsm,        \* g_fsm
    event,      \* what buttons_poll() gave the loop
    at,         \* where the loop is
    mode,       \* ui_mode_t
    active,     \* polls since browse_last_activity_us
    asleep,     \* g_screen.asleep
    touched,    \* polls since g_screen.last_activity_us
    armed,      \* the prompt has seen confirm released
    outcome,    \* how the last prompt ended
    screen,     \* history: what is on the glass
    unveiled,   \* history: polls since the chord that brought the secret up
    spent       \* history: buttons whose latest press has been acted on

buttons == <<level, released, spent>>
sleep == <<asleep, touched>>
prompt == <<armed, outcome>>
vars == <<ready, buttons, fsm, event, at, mode, active, sleep, prompt, screen, unveiled>>

Confirm == 1
Cancel == 2
Button == {Confirm, Cancel}
Event == {"none", "tap1", "tap2", "chord"}

TypeOK ==
    /\ ready \in BOOLEAN
    /\ level \subseteq Button /\ released \subseteq Button /\ spent \subseteq Button
    /\ fsm \in [down: SUBSET Button, age: [Button -> 0 .. ChordPolls],
                fired: BOOLEAN, consumed: BOOLEAN]
    /\ event \in Event
    /\ at \in {"top", "dark", "switch", "prompt", "hold", "failed"}
    /\ mode \in {"idle", "browse", "qr"}
    /\ active \in 0 .. QrTimeout + 3 /\ unveiled \in 0 .. QrTimeout + 3
    /\ asleep \in BOOLEAN /\ touched \in 0 .. SleepTimeout
    /\ armed \in BOOLEAN /\ outcome \in {"none", "yes", "no", "timeout"}
    /\ screen \in {"idle", "browse", "secret", "card", "dark"}

Init ==
    /\ ready \in BOOLEAN
    /\ level = {} /\ released = {} /\ spent = {}
    /\ fsm = [down |-> {}, age |-> [b \in Button |-> 0], fired |-> FALSE, consumed |-> FALSE]
    /\ event = "none" /\ at = "top" /\ mode = "idle" /\ active = 0
    /\ asleep = FALSE /\ touched = 0
    /\ armed = FALSE /\ outcome = "none"
    /\ screen = "idle" /\ unveiled = 0

Capped(n, top) == IF n < top THEN n ELSE top

-----------------------------------------------------------------------------
(***************************************************************************)
(* The buttons.                                                            *)
(***************************************************************************)

\* Mutant: only buttons_poll() feeds the health record.
ReadUnobserved(down) ==
    /\ level' = down
    /\ released' = IF at = "top" THEN released \cup (Button \ down) ELSE released
    /\ \E again \in SUBSET down : spent' = spent \ ((down \ level) \cup again)

\* buttons_raw_1() and buttons_raw_2(), which feed input_health_observe().  A
\* button that is down was pressed since the last read if it was up then, and
\* may have been if it was not.
Read(down) ==
    /\ level' = down
    /\ released' = released \cup (Button \ down)
    /\ \E again \in SUBSET down : spent' = spent \ ((down \ level) \cup again)

\* button_fsm_consume_press(): every press up to now has been acted on.
ConsumePress(f) == fsm' = [f EXCEPT !.consumed = TRUE]
Spend == spent' = Button

\* Held long enough, at the poll that finds b released.  One poll is the
\* debounce time to the microsecond, and counts or does not.
LongEnough(b) == IF fsm.age[b] >= 1 THEN {TRUE} ELSE BOOLEAN

\* The buttons whose release counts as a tap.
Taps(down) == {b \in fsm.down \ down : ~fsm.fired /\ ~fsm.consumed}

\* button_fsm_poll(): the events it may report ...
PollEvents(down) ==
    IF down = Button
    THEN IF /\ ~fsm.fired /\ ~fsm.consumed
            /\ \A b \in Button : b \in fsm.down /\ fsm.age[b] + 1 >= ChordPolls
         THEN {"chord"} ELSE {"none"}
    ELSE {IF Confirm \in Taps(down) /\ long[Confirm] THEN "tap1"
          ELSE IF Cancel \in Taps(down) /\ long[Cancel] THEN "tap2" ELSE "none"
          : long \in {l \in [Button -> BOOLEAN] : \A b \in Button : l[b] \in LongEnough(b)}}

\* ... and the state it is left in.
PollState(down, e) ==
    [down |-> IF down = Button THEN Button ELSE down,
     age |-> [b \in Button |-> IF b \in down \cap fsm.down
                               THEN Capped(fsm.age[b] + 1, ChordPolls) ELSE 0],
     fired |-> down # {} /\ (fsm.fired \/ e = "chord"),
     consumed |-> down # {} /\ fsm.consumed]

-----------------------------------------------------------------------------
(***************************************************************************)
(* The screen.                                                             *)
(***************************************************************************)

\* Drawing something, and screen_awake() after it.
Show(what) == screen' = what /\ asleep' = FALSE /\ touched' = 0
ShowIdle == Show("idle")

\* display_sleep() clears the panel, and any browsing ends.
GoDark ==
    /\ screen' = "dark" /\ asleep' = TRUE
    /\ mode' = "idle"

\* screen_sleep_expired(), for a panel that came up.
SleepExpired == ready /\ touched >= SleepTimeout

-----------------------------------------------------------------------------
(***************************************************************************)
(* The loop.                                                               *)
(***************************************************************************)

\* A request goes first.  A prompt nobody could see is refused at once.
Request ==
    /\ at = "top"
    /\ IF ready
       THEN /\ at' = "prompt"
            /\ armed' = FALSE
            /\ Show("card")
            /\ UNCHANGED <<mode, outcome>>
       ELSE /\ mode' = "idle" /\ ShowIdle
            /\ UNCHANGED <<at, prompt>>
    /\ UNCHANGED <<ready, buttons, fsm, event, active, unveiled>>

\* approval_poll() inside service_remote_confirm(), still pending.
PromptPoll ==
    /\ at = "prompt"
    /\ \E down \in SUBSET Button : Read(down) /\ armed' = (armed \/ Confirm \notin down)
    /\ UNCHANGED <<ready, fsm, event, at, mode, active, sleep, outcome, screen, unveiled>>

\* Mutant: the press that answered stays in the gesture machine.
PromptEndUnconsumed ==
    /\ at = "prompt" /\ at' = "hold"
    /\ outcome' \in {o \in {"yes", "no", "timeout"} : o = "yes" => armed /\ Confirm \in level}
    /\ Spend
    /\ fsm' = [fsm EXCEPT !.age = [b \in Button |-> ChordPolls]]
    /\ Show("card")
    /\ UNCHANGED <<ready, level, released, event, mode, active, armed, unveiled>>

\* Its verdict: the press that gave it is spent, the outcome card comes up.
\* Whatever the gesture machine held down has been down for long.
PromptEnd ==
    /\ at = "prompt" /\ at' = "hold"
    /\ outcome' \in {o \in {"yes", "no", "timeout"} : o = "yes" => armed /\ Confirm \in level}
    /\ Spend
    /\ ConsumePress([fsm EXCEPT !.age = [b \in Button |-> ChordPolls]])
    /\ Show("card")
    /\ UNCHANGED <<ready, level, released, event, mode, active, armed, unveiled>>

\* OUTCOME_HOLD_MS later.
HoldEnd ==
    /\ at = "hold" /\ at' = "top"
    /\ mode' = "idle" /\ ShowIdle
    /\ UNCHANGED <<ready, buttons, fsm, event, active, prompt, unveiled>>

\* buttons_poll(), 30 ms after the one before it.
Poll ==
    /\ at = "top" /\ at' = IF asleep THEN "dark" ELSE "switch"
    /\ \E down \in SUBSET Button : \E e \in PollEvents(down) :
          /\ Read(down)
          /\ fsm' = PollState(down, e)
          /\ event' = e
    /\ active' = Capped(active + 1, QrTimeout + 3)
    /\ unveiled' = Capped(unveiled + 1, QrTimeout + 3)
    /\ touched' = Capped(touched + 1, SleepTimeout)
    /\ UNCHANGED <<ready, mode, asleep, prompt, screen>>

\* Dark: an event, or a level read once more, buys the light and nothing else.
\* Button 2 is read only if button 1 is up.
Lit == Spend /\ ConsumePress(fsm) /\ ShowIdle

Wake ==
    /\ at = "dark" /\ at' = "top"
    /\ \/ event # "none" /\ Lit /\ UNCHANGED <<level, released>>
       \/ event = "none" /\ Lit
          /\ \/ level' = level \cup {Confirm} /\ UNCHANGED released
             \/ level' = {Cancel} /\ released' = released \cup {Confirm}
       \/ event = "none" /\ level' = {} /\ released' = Button
          /\ UNCHANGED <<spent, fsm, screen, sleep>>
    /\ UNCHANGED <<ready, event, mode, active, prompt, unveiled>>

\* The end of a turn of the loop, once the switch has drawn or not.
Drawn(m, what) ==
    /\ mode' = m /\ Show(what)
    /\ at' = "top"
NotDrawn ==
    /\ IF SleepExpired THEN GoDark /\ UNCHANGED touched
       ELSE UNCHANGED <<mode, screen, sleep>>
    /\ at' = "top"
Acted == /\ at = "switch"
         /\ UNCHANGED <<ready, buttons, fsm, event, prompt>>

\* UI_IDLE: a tap starts browsing, if there is a note to browse.
Idle ==
    /\ Acted /\ mode = "idle"
    /\ \/ event \in {"tap1", "tap2"} /\ Drawn("browse", "browse") /\ active' = 0
       \/ NotDrawn /\ UNCHANGED active
    /\ UNCHANGED unveiled

\* UI_BROWSE: the chord unveils, a tap goes on.
Unveil ==
    /\ Acted /\ mode = "browse" /\ event = "chord"
    /\ active' = 0
    /\ \/ ready /\ Drawn("qr", "secret") /\ unveiled' = 0
       \/ at' = "failed" /\ screen' = "card" /\ UNCHANGED <<mode, sleep, unveiled>>

Browse ==
    /\ Acted /\ mode = "browse" /\ event # "chord"
    /\ \/ event # "none" /\ Drawn("browse", "browse") /\ active' = 0
       \/ event = "none" /\ active > BrowseTimeout /\ Drawn("idle", "idle") /\ UNCHANGED active
       \/ event = "none" /\ active <= BrowseTimeout /\ NotDrawn /\ UNCHANGED active
    /\ UNCHANGED unveiled

\* Mutant: every form it is shown in buys the secret more time.
QrNextProlonged ==
    /\ Acted /\ mode = "qr" /\ event = "tap1"
    /\ Drawn("qr", "secret")
    /\ active' = 0
    /\ UNCHANGED unveiled

\* UI_QR_SHOWN, button 1: the next form that renders, or none does.
QrNext ==
    /\ Acted /\ mode = "qr" /\ event = "tap1"
    /\ \/ Drawn("qr", "secret")
       \/ at' = "failed" /\ screen' = "card" /\ UNCHANGED <<mode, sleep>>
    /\ UNCHANGED <<active, unveiled>>

\* Button 2 or a chord leaves, and so does the deadline.
Qr ==
    /\ Acted /\ mode = "qr" /\ event # "tap1"
    /\ \/ event # "none" /\ Drawn("browse", "browse") /\ active' = 0
       \/ event = "none" /\ active > QrTimeout /\ Drawn("idle", "idle") /\ UNCHANGED active
       \/ event = "none" /\ active <= QrTimeout /\ NotDrawn /\ UNCHANGED active
    /\ UNCHANGED unveiled

\* FAILED for 900 ms, then the note again.
FailedEnd ==
    /\ at = "failed"
    /\ Drawn("browse", "browse")
    /\ active' = 0
    /\ fsm' = [fsm EXCEPT !.age = [b \in Button |-> ChordPolls]]
    /\ UNCHANGED <<ready, buttons, event, prompt, unveiled>>

Next ==
    \/ Request \/ PromptPoll \/ PromptEnd \/ HoldEnd
    \/ Poll \/ Wake
    \/ Idle \/ Browse \/ Unveil \/ QrNext \/ Qr \/ FailedEnd

Spec == Init /\ [][Next]_vars

-----------------------------------------------------------------------------
(***************************************************************************)
(* Properties.                                                             *)
(***************************************************************************)

\* service_remote_confirm(), "the screen after this one acts on a press the
\* owner made for this one": a press that answered a prompt, was down when it
\* ended or lit a dark screen is never a tap or half of a chord, however
\* long it is held and whatever the other button does.
SpentPressIsSpent ==
    /\ at = "switch" /\ event = "tap1" => Confirm \notin spent
    /\ at = "switch" /\ event = "tap2" => Cancel \notin spent
    /\ at = "switch" /\ event = "chord" => spent = {}

\* "The secret leaves the screen at a fixed deadline from the chord that
\* unveiled it, however many times it is redrawn."  A tap at the very poll that
\* finds the deadline passed goes first, and the next poll cannot be another.
SecretComesDown == screen = "secret" => unveiled <= QrTimeout + 2

\* input_health.h: the prompt and the loop feed one record, so that the
\* button of a granted prompt is never called stuck.
GrantedButtonIsHealthy == outcome = "yes" => Confirm \in released
=============================================================================
