--------------------------- MODULE GesturesProofs ---------------------------
(***************************************************************************)
(* Proofs about Gestures, for any timeouts: every press of the owner is    *)
(* acted on once, a secret on the glass comes down in time, and the button *)
(* that granted a prompt is one the record has seen working.               *)
(***************************************************************************)
EXTENDS Gestures, TLAPS

-----------------------------------------------------------------------------
(***************************************************************************)
(* Types.                                                                  *)
(***************************************************************************)

\* The timeouts are positive.
LEMMA Timeouts == /\ ChordPolls \in Nat /\ BrowseTimeout \in Nat
                  /\ QrTimeout \in Nat /\ SleepTimeout \in Nat
  BY GesturesAssumption DEF GesturesAssumption

\* A capped count stays a count.
LEMMA CappedType ==
    ASSUME NEW top \in Nat, NEW n \in 0 .. top
    PROVE  Capped(n + 1, top) \in 0 .. top
  BY DEF Capped

\* The gesture machine as a set of records.
Fsm == [down: SUBSET Button, age: [Button -> 0 .. ChordPolls],
        fired: BOOLEAN, consumed: BOOLEAN]

\* What a read of the buttons leaves.
LEMMA ReadType ==
    ASSUME released \subseteq Button, NEW down \in SUBSET Button, Read(down)
    PROVE  level' \subseteq Button /\ released' \subseteq Button /\ spent' \subseteq spent
  BY DEF Read

\* What a poll of the machine leaves, and the events it may report.
LEMMA PollType ==
    ASSUME fsm \in Fsm, NEW down \in SUBSET Button, NEW e \in PollEvents(down)
    PROVE  e \in Event /\ PollState(down, e) \in Fsm
<1>1. e \in Event
  BY DEF PollEvents, Event
<1>2. ASSUME NEW b \in Button
      PROVE  Capped(fsm.age[b] + 1, ChordPolls) \in 0 .. ChordPolls
  BY Timeouts, CappedType DEF Fsm
<1>3. [b \in Button |-> IF b \in down \cap fsm.down
                        THEN Capped(fsm.age[b] + 1, ChordPolls) ELSE 0]
          \in [Button -> 0 .. ChordPolls]
  BY <1>2, Timeouts
<1>4. QED
  BY <1>1, <1>3 DEF PollState, Fsm

\* Holding down for long, and spending a press, keep the machine's type.
LEMMA FsmType ==
    ASSUME NEW f \in Fsm
    PROVE  /\ [f EXCEPT !.age = [b \in Button |-> ChordPolls]] \in Fsm
           /\ [f EXCEPT !.consumed = TRUE] \in Fsm
<1>1. [b \in Button |-> ChordPolls] \in [Button -> 0 .. ChordPolls]
  BY Timeouts
<1>2. ASSUME NEW a \in [Button -> 0 .. ChordPolls] PROVE [f EXCEPT !.age = a] \in Fsm
  BY DEF Fsm
<1>3. [f EXCEPT !.consumed = TRUE] \in Fsm
  BY DEF Fsm
<1>4. QED
  BY <1>1, <1>2, <1>3

(***************************************************************************)
(* TypeOK in parts: the machine, the flags, the places and the clocks.     *)
(***************************************************************************)
MachineType == /\ level \subseteq Button /\ released \subseteq Button /\ spent \subseteq Button
               /\ fsm \in Fsm /\ event \in Event
FlagType == ready \in BOOLEAN /\ asleep \in BOOLEAN /\ armed \in BOOLEAN
PlaceType == /\ at \in {"top", "dark", "switch", "prompt", "hold", "failed"}
             /\ mode \in {"idle", "browse", "qr"}
             /\ outcome \in {"none", "yes", "no", "timeout"}
             /\ screen \in {"idle", "browse", "secret", "card", "dark"}
ClockType == /\ active \in 0 .. QrTimeout + 3 /\ unveiled \in 0 .. QrTimeout + 3
             /\ touched \in 0 .. SleepTimeout

LEMMA TypeParts == TypeOK <=> MachineType /\ FlagType /\ PlaceType /\ ClockType
  BY DEF TypeOK, MachineType, FlagType, PlaceType, ClockType, Fsm

LEMMA TypeInit == Init => TypeOK
<1> SUFFICES ASSUME Init PROVE TypeOK
  OBVIOUS
<1>1. MachineType
  BY Timeouts DEF Init, MachineType, Fsm, Button, Event
<1>2. FlagType /\ PlaceType
  BY DEF Init, FlagType, PlaceType
<1>3. ClockType
  BY Timeouts DEF Init, ClockType
<1>4. QED
  BY <1>1, <1>2, <1>3, TypeParts

\* The steps of the loop that read no button.
Draws == Request \/ HoldEnd \/ Idle \/ Browse \/ Unveil \/ QrNext \/ Qr

LEMMA MachineStep == MachineType /\ [Next]_vars => MachineType'
<1> SUFFICES ASSUME MachineType, [Next]_vars PROVE MachineType'
  OBVIOUS
<1>0. fsm \in Fsm
  BY DEF MachineType
<1>1. CASE UNCHANGED vars \/ Draws
  BY <1>1 DEF Draws, Request, HoldEnd, Idle, Browse, Unveil, QrNext, Qr, Acted, vars, buttons,
              MachineType
<1>2. ASSUME NEW down \in SUBSET Button, Read(down)
      PROVE  level' \subseteq Button /\ released' \subseteq Button /\ spent' \subseteq Button
  BY <1>2, ReadType DEF MachineType
<1>3. CASE PromptPoll
  BY <1>2, <1>3 DEF PromptPoll, MachineType
<1>4. CASE PromptEnd
  BY <1>0, <1>4, FsmType DEF PromptEnd, Spend, ConsumePress, MachineType
<1>5. CASE Poll
  BY <1>0, <1>2, <1>5, PollType DEF Poll, MachineType
<1>6. CASE Wake
  <2>1. fsm' \in Fsm /\ spent' \subseteq Button /\ event' = event
    BY <1>0, <1>6, FsmType DEF Wake, Lit, Spend, ConsumePress, MachineType
  <2>2. level' \subseteq Button /\ released' \subseteq Button
    BY <1>6 DEF Wake, MachineType, Button
  <2>3. QED
    BY <2>1, <2>2 DEF MachineType
<1>7. CASE FailedEnd
  BY <1>0, <1>7, FsmType DEF FailedEnd, buttons, MachineType
<1>8. QED
  BY <1>1, <1>3, <1>4, <1>5, <1>6, <1>7 DEF Next, Draws

LEMMA FlagStep == FlagType /\ [Next]_vars => FlagType'
<1> SUFFICES ASSUME FlagType, [Next]_vars PROVE FlagType'
  OBVIOUS
<1> USE DEF FlagType, sleep, prompt, Show, ShowIdle, GoDark
<1>1. CASE UNCHANGED vars
  BY <1>1 DEF vars
<1>2. CASE Request \/ PromptPoll \/ PromptEnd \/ HoldEnd
  BY <1>2 DEF Request, PromptPoll, PromptEnd, HoldEnd
<1>3. CASE Poll \/ Wake \/ FailedEnd
  BY <1>3 DEF Poll, Wake, Lit, FailedEnd, Drawn
<1>4. CASE Idle \/ Browse \/ Unveil \/ QrNext \/ Qr
  BY <1>4 DEF Idle, Browse, Unveil, QrNext, Qr, Acted, Drawn, NotDrawn
<1>5. QED
  BY <1>1, <1>2, <1>3, <1>4 DEF Next

LEMMA PlaceStep == PlaceType /\ [Next]_vars => PlaceType'
<1> SUFFICES ASSUME PlaceType, [Next]_vars PROVE PlaceType'
  OBVIOUS
<1> USE DEF PlaceType, prompt, Show, ShowIdle, GoDark
<1>1. CASE UNCHANGED vars
  BY <1>1 DEF vars
<1>2. CASE Request \/ PromptPoll \/ PromptEnd \/ HoldEnd
  BY <1>2 DEF Request, PromptPoll, PromptEnd, HoldEnd
<1>3. CASE Poll \/ Wake \/ FailedEnd
  BY <1>3 DEF Poll, Wake, Lit, FailedEnd, Drawn
<1>4. CASE Idle \/ Browse \/ Unveil \/ QrNext \/ Qr
  BY <1>4 DEF Idle, Browse, Unveil, QrNext, Qr, Acted, Drawn, NotDrawn
<1>5. QED
  BY <1>1, <1>2, <1>3, <1>4 DEF Next

LEMMA ClockStep == ClockType /\ [Next]_vars => ClockType'
<1> SUFFICES ASSUME ClockType, [Next]_vars PROVE ClockType'
  OBVIOUS
<1>1. 0 \in 0 .. QrTimeout + 3 /\ 0 \in 0 .. SleepTimeout
  BY Timeouts
<1>3. ASSUME active' \in {active, 0}, unveiled' \in {unveiled, 0}, touched' \in {touched, 0}
      PROVE  ClockType'
  BY <1>1, <1>3 DEF ClockType
<1>4. CASE UNCHANGED vars
  BY <1>3, <1>4 DEF vars, sleep
<1>5. CASE Request \/ PromptPoll \/ PromptEnd \/ HoldEnd \/ Wake \/ FailedEnd
  <2>1. touched' \in {touched, 0}
    BY <1>5 DEF Request, PromptPoll, PromptEnd, HoldEnd, Wake, FailedEnd, Lit, Drawn, Show,
                ShowIdle, sleep
  <2>2. active' \in {active, 0} /\ unveiled' \in {unveiled, 0}
    BY <1>5 DEF Request, PromptPoll, PromptEnd, HoldEnd, Wake, FailedEnd
  <2>3. QED
    BY <1>3, <2>1, <2>2
<1>6. CASE Poll
  BY <1>6, Timeouts, CappedType DEF Poll, ClockType
<1>7. CASE Idle \/ Browse \/ Unveil \/ QrNext \/ Qr
  <2>1. touched' \in {touched, 0}
    BY <1>7 DEF Idle, Browse, Unveil, QrNext, Qr, Drawn, NotDrawn, GoDark, Show, sleep
  <2>2. active' \in {active, 0} /\ unveiled' \in {unveiled, 0}
    BY <1>7 DEF Idle, Browse, Unveil, QrNext, Qr
  <2>3. QED
    BY <1>3, <2>1, <2>2
<1>8. QED
  BY <1>4, <1>5, <1>6, <1>7 DEF Next

LEMMA TypeStep == TypeOK /\ [Next]_vars => TypeOK'
<1>1. TypeOK' <=> MachineType' /\ FlagType' /\ PlaceType' /\ ClockType'
  BY DEF TypeOK, MachineType, FlagType, PlaceType, ClockType, Fsm
<1>2. QED
  BY <1>1, TypeParts, MachineStep, FlagStep, PlaceStep, ClockStep

\* The variables keep their types.
THEOREM TypeCorrect == Spec => []TypeOK
  BY TypeInit, TypeStep, PTL DEF Spec

-----------------------------------------------------------------------------
(***************************************************************************)
(* A press is acted on once.  What the gesture machine has down, and what  *)
(* was down when last read, is unspent unless the machine is told that it  *)
(* was consumed; it forgets that only with nothing down.                   *)
(***************************************************************************)
PressInv == ~fsm.consumed => (fsm.down \cup level) \cap spent = {}

\* A read spends nothing, and makes a press that was not there a new one.
LEMMA ReadSpends ==
    ASSUME NEW down \in SUBSET Button, Read(down)
    PROVE  /\ level' = down /\ spent' \subseteq spent
           /\ \A b \in down : b \notin level => b \notin spent'
  BY DEF Read

\* A tap is a release of what the machine had down and was not told to
\* forget, a chord what it had down entirely.
LEMMA EventsOf ==
    ASSUME NEW down \in SUBSET Button, NEW e \in PollEvents(down)
    PROVE  /\ e = "tap1" => Confirm \in fsm.down \ down /\ ~fsm.consumed
           /\ e = "tap2" => Cancel \in fsm.down \ down /\ ~fsm.consumed
           /\ e = "chord" => down = Button /\ Button \subseteq fsm.down /\ ~fsm.consumed
<1>1. CASE down = Button
  BY <1>1 DEF PollEvents
<1>2. CASE down # Button
  BY <1>2 DEF PollEvents, Taps
<1>3. QED
  BY <1>1, <1>2

LEMMA PressStep == TypeOK /\ PressInv /\ SpentPressIsSpent /\ [Next]_vars
                     => PressInv' /\ SpentPressIsSpent'
<1> SUFFICES ASSUME TypeOK, PressInv, SpentPressIsSpent, [Next]_vars
             PROVE  PressInv' /\ SpentPressIsSpent'
  OBVIOUS
<1>0. fsm \in Fsm
  BY DEF TypeOK, Fsm
<1>1. ASSUME UNCHANGED <<level, spent, fsm>>, at' # "switch" PROVE PressInv' /\ SpentPressIsSpent'
  BY <1>1 DEF PressInv, SpentPressIsSpent
<1>2. CASE UNCHANGED vars
  BY <1>2 DEF vars, buttons, PressInv, SpentPressIsSpent
<1>3. CASE Request \/ HoldEnd \/ Idle \/ Browse \/ Unveil \/ QrNext \/ Qr
  BY <1>1, <1>3 DEF Request, HoldEnd, Idle, Browse, Unveil, QrNext, Qr, Acted, Drawn,
                    NotDrawn, buttons
<1>4. CASE PromptPoll
  <2>1. PICK down \in SUBSET Button : Read(down)
    BY <1>4 DEF PromptPoll
  <2>2. fsm' = fsm /\ at' # "switch"
    BY <1>4 DEF PromptPoll
  <2>3. QED
    BY <2>1, <2>2, ReadSpends DEF PressInv, SpentPressIsSpent
<1>5. CASE PromptEnd
  BY <1>0, <1>5 DEF PromptEnd, ConsumePress, PressInv, SpentPressIsSpent, Fsm
<1>6. CASE Poll
  <2>0. PICK down \in SUBSET Button : \E e \in PollEvents(down) :
           Read(down) /\ fsm' = PollState(down, e) /\ event' = e
    BY <1>6 DEF Poll
  <2>1. PICK e \in PollEvents(down) : Read(down) /\ fsm' = PollState(down, e) /\ event' = e
    BY <2>0
  <2>2. /\ fsm'.down = down /\ fsm'.consumed = (down # {} /\ fsm.consumed)
    BY <2>1 DEF PollState
  <2>3. PressInv'
    <3>1. CASE down = {}
      BY <2>1, <2>2, <3>1, ReadSpends DEF PressInv
    <3>2. CASE down # {}
      <4>1. fsm'.consumed = fsm.consumed
        BY <1>0, <2>2, <3>2 DEF Fsm
      <4>2. QED
        BY <2>1, <2>2, <4>1, ReadSpends DEF PressInv
    <3>3. QED
      BY <3>1, <3>2
  <2>4. SpentPressIsSpent'
    <3>1. /\ event' = "tap1" => Confirm \in fsm.down /\ ~fsm.consumed
          /\ event' = "tap2" => Cancel \in fsm.down /\ ~fsm.consumed
          /\ event' = "chord" => Button \subseteq fsm.down /\ ~fsm.consumed
      BY <2>1, EventsOf
    <3>2. spent' \subseteq spent /\ spent \subseteq Button
      BY <2>1, ReadSpends DEF TypeOK
    <3>3. QED
      BY <3>1, <3>2 DEF PressInv, SpentPressIsSpent
  <2>5. QED
    BY <2>3, <2>4
<1>7. CASE Wake
  <2>1. at' # "switch"
    BY <1>7 DEF Wake
  <2>2. CASE Lit
    BY <1>0, <2>1, <2>2 DEF Lit, ConsumePress, PressInv, SpentPressIsSpent, Fsm
  <2>3. CASE ~Lit
    BY <1>7, <2>1, <2>3 DEF Wake, PressInv, SpentPressIsSpent
  <2>4. QED
    BY <2>2, <2>3
<1>8. CASE FailedEnd
  <2>1. fsm'.down = fsm.down /\ fsm'.consumed = fsm.consumed
    BY <1>0, <1>8 DEF FailedEnd, Fsm
  <2>2. QED
    BY <1>8, <2>1 DEF FailedEnd, Drawn, buttons, PressInv, SpentPressIsSpent
<1>9. QED
  BY <1>2, <1>3, <1>4, <1>5, <1>6, <1>7, <1>8 DEF Next

\* A press that answered a prompt or lit a dark screen is no tap and no half of
\* a chord afterwards (button_fsm_consume_press, its callers in ui_task.c).
THEOREM SpentPressesStaySpent == Spec => []SpentPressIsSpent
<1>1. Init => PressInv /\ SpentPressIsSpent
  BY DEF Init, PressInv, SpentPressIsSpent
<1>2. QED
  BY <1>1, TypeInit, TypeStep, PressStep, PTL DEF Spec

-----------------------------------------------------------------------------
(***************************************************************************)
(* The secret.  While it is up nothing resets the clock of the loop, so    *)
(* both clocks agree; past the deadline only a tap of button 1 keeps it up *)
(* for one poll more, which leaves that button up in the gesture machine.  *)
(***************************************************************************)
SecretInv ==
    screen = "secret" =>
        /\ mode = "qr" /\ ~asleep /\ at \in {"top", "switch"}
        /\ active = unveiled
        /\ at = "top" => /\ active <= QrTimeout + 1
                         /\ active = QrTimeout + 1 => Confirm \notin fsm.down
        /\ at = "switch" => /\ active <= QrTimeout + 2
                            /\ active = QrTimeout + 2 => event # "tap1"
                            /\ event = "tap1" => Confirm \notin fsm.down

\* The other way round: where the loop may redraw the secret, it is up.
ModeInv ==
    /\ asleep => mode = "idle"
    /\ at = "dark" => asleep
    /\ mode = "qr" /\ at \in {"top", "switch"} => screen = "secret"

LEMMA ModeStep == TypeOK /\ ModeInv /\ [Next]_vars => ModeInv'
<1> SUFFICES ASSUME TypeOK, ModeInv, [Next]_vars PROVE ModeInv'
  OBVIOUS
<1> USE DEF ModeInv
<1>1. CASE UNCHANGED vars
  BY <1>1 DEF vars, sleep
<1>2. CASE Request \/ HoldEnd \/ PromptEnd \/ FailedEnd
  BY <1>2 DEF Request, HoldEnd, PromptEnd, FailedEnd, Drawn, Show, ShowIdle
<1>3. CASE PromptPoll
  BY <1>3 DEF PromptPoll, sleep
<1>4. CASE Poll
  BY <1>4 DEF Poll
<1>5. CASE Wake
  <2>1. at' = "top" /\ mode' = "idle"
    BY <1>5 DEF Wake
  <2>2. QED
    BY <2>1
<1>6. CASE Idle \/ Browse \/ Qr
  <2>1. ASSUME NEW m \in {"idle", "browse"}, NEW what, Drawn(m, what) PROVE ModeInv'
    BY <2>1 DEF Drawn, Show
  <2>2. CASE NotDrawn
    BY <1>6, <2>2 DEF NotDrawn, GoDark, Idle, Browse, Qr, Acted, sleep
  <2>3. QED
    BY <1>6, <2>1, <2>2 DEF Idle, Browse, Qr
<1>7. CASE Unveil \/ QrNext
  BY <1>7 DEF Unveil, QrNext, Acted, Drawn, Show, sleep
<1>8. QED
  BY <1>1, <1>2, <1>3, <1>4, <1>5, <1>6, <1>7 DEF Next

LEMMA SecretStep == TypeOK /\ ModeInv /\ SecretInv /\ [Next]_vars => SecretInv'
<1> SUFFICES ASSUME TypeOK, ModeInv, SecretInv, [Next]_vars, screen' = "secret" PROVE SecretInv'
  BY DEF SecretInv
<1> USE Timeouts
<1>0. active \in Nat /\ unveiled \in Nat
  BY DEF TypeOK
<1>1. CASE UNCHANGED vars
  BY <1>1 DEF vars, buttons, sleep, prompt, SecretInv
<1>2. CASE Request \/ HoldEnd \/ PromptEnd \/ FailedEnd
  BY <1>2 DEF Request, HoldEnd, PromptEnd, FailedEnd, Drawn, Show, ShowIdle
<1>3. CASE PromptPoll
  BY <1>3 DEF PromptPoll, SecretInv
<1>4. CASE Poll
  <2>0. PICK down \in SUBSET Button : \E e \in PollEvents(down) :
           Read(down) /\ fsm' = PollState(down, e) /\ event' = e
    BY <1>4 DEF Poll
  <2>1. PICK e \in PollEvents(down) : Read(down) /\ fsm' = PollState(down, e) /\ event' = e
    BY <2>0
  <2>2. /\ screen = "secret" /\ at = "top" /\ at' = "switch" /\ mode' = mode
        /\ asleep' = asleep
        /\ active' = Capped(active + 1, QrTimeout + 3)
        /\ unveiled' = Capped(unveiled + 1, QrTimeout + 3)
    BY <1>4 DEF Poll, SecretInv
  <2>3. /\ active <= QrTimeout + 1 /\ active = unveiled
        /\ active = QrTimeout + 1 => Confirm \notin fsm.down
    BY <2>2 DEF SecretInv
  <2>4. active' = active + 1 /\ unveiled' = active + 1
    BY <1>0, <2>2, <2>3 DEF Capped
  <2>5. event' = "tap1" => Confirm \in fsm.down /\ Confirm \notin fsm'.down
    BY <2>1, EventsOf DEF PollState
  <2>6. QED
    BY <1>0, <2>2, <2>3, <2>4, <2>5 DEF SecretInv
<1>5. CASE Wake
  BY <1>5 DEF Wake, Lit, Show, ShowIdle, SecretInv
<1>6. CASE Idle \/ Browse
  BY <1>6 DEF Idle, Browse, Acted, Drawn, NotDrawn, GoDark, Show, SecretInv
<1>7. CASE Unveil
  <2>1. mode' = "qr" /\ asleep' = FALSE /\ at' = "top" /\ active' = 0 /\ unveiled' = 0
    BY <1>7 DEF Unveil, Drawn, Show
  <2>2. QED
    BY <2>1 DEF SecretInv
<1>8. CASE QrNext
  <2>1. screen = "secret" /\ at = "switch" /\ event = "tap1"
    BY <1>8 DEF QrNext, Acted, ModeInv
  <2>2. /\ active <= QrTimeout + 2 /\ active # QrTimeout + 2 /\ active = unveiled
        /\ Confirm \notin fsm.down
    BY <2>1 DEF SecretInv
  <2>3. /\ at' = "top" /\ active' = active /\ unveiled' = unveiled /\ fsm' = fsm
    BY <1>8 DEF QrNext, Acted, Drawn, Show
  <2>4. mode' = "qr" /\ ~asleep'
    BY <1>8 DEF QrNext, Drawn, Show
  <2>5. QED
    BY <1>0, <2>2, <2>3, <2>4 DEF SecretInv
<1>9. CASE Qr
  <2>1. NotDrawn /\ active <= QrTimeout
    BY <1>9 DEF Qr, Drawn, Show
  <2>2. screen = "secret" /\ at = "switch"
    BY <1>9 DEF Qr, Acted, ModeInv
  <2>3. active' = active /\ unveiled' = unveiled /\ at' = "top"
    BY <1>9, <2>1 DEF Qr, NotDrawn, Drawn, Show
  <2>4. mode' = mode /\ asleep' = asleep
    BY <2>1 DEF NotDrawn, GoDark, sleep
  <2>5. mode' = "qr" /\ ~asleep' /\ active = unveiled
    BY <2>2, <2>4 DEF SecretInv
  <2>6. QED
    BY <1>0, <2>1, <2>3, <2>5 DEF SecretInv
<1>10. QED
  BY <1>1, <1>2, <1>3, <1>4, <1>5, <1>6, <1>7, <1>8, <1>9 DEF Next

\* However often a secret is redrawn, it is off the glass two polls after its
\* deadline at the latest (the UI_QR_SHOWN case of ui_task_fn).
THEOREM SecretsComeDown == Spec => []SecretComesDown
<1>1. Init => ModeInv /\ SecretInv
  BY DEF Init, ModeInv, SecretInv
<1>2. TypeOK /\ SecretInv => SecretComesDown
  BY Timeouts DEF TypeOK, SecretInv, SecretComesDown
<1>3. QED
  BY <1>1, <1>2, TypeInit, TypeStep, ModeStep, SecretStep, PTL DEF Spec

-----------------------------------------------------------------------------
(***************************************************************************)
(* The health record.  Arming is seeing confirm up, and the record sees    *)
(* what the prompt sees; it forgets nothing.                               *)
(***************************************************************************)
HealthInv == (armed => Confirm \in released) /\ GrantedButtonIsHealthy

\* A prompt is granted only by a button that the record does not call stuck
\* (input_health_observe, approval_poll).
THEOREM GrantsAreHealthy == Spec => []GrantedButtonIsHealthy
<1>1. Init => HealthInv
  BY DEF Init, HealthInv, GrantedButtonIsHealthy
<1>2. ASSUME TypeOK, HealthInv, [Next]_vars PROVE HealthInv'
  <2>1. ASSUME released \subseteq released', armed' => armed, outcome' = outcome
        PROVE  HealthInv'
    BY <1>2, <2>1 DEF HealthInv, GrantedButtonIsHealthy
  <2>2. CASE UNCHANGED vars
    BY <2>1, <2>2 DEF vars, buttons, prompt
  <2>3. CASE Request \/ HoldEnd \/ Idle \/ Browse \/ Unveil \/ QrNext \/ Qr \/ FailedEnd
    BY <2>1, <2>3 DEF Request, HoldEnd, Idle, Browse, Unveil, QrNext, Qr, FailedEnd, Acted,
                      buttons, prompt
  <2>4. CASE PromptPoll
    <3>1. PICK down \in SUBSET Button : Read(down) /\ armed' = (armed \/ Confirm \notin down)
      BY <2>4 DEF PromptPoll
    <3>2. released' = released \cup (Button \ down) /\ outcome' = outcome
      BY <2>4, <3>1 DEF PromptPoll, Read
    <3>3. QED
      BY <1>2, <3>1, <3>2 DEF HealthInv, GrantedButtonIsHealthy, Button
  <2>5. CASE PromptEnd
    BY <1>2, <2>5 DEF PromptEnd, HealthInv, GrantedButtonIsHealthy
  <2>6. CASE Poll
    BY <2>1, <2>6 DEF Poll, Read, prompt
  <2>7. CASE Wake
    BY <1>2, <2>1, <2>7 DEF Wake, prompt, TypeOK
  <2>8. QED
    BY <1>2, <2>2, <2>3, <2>4, <2>5, <2>6, <2>7 DEF Next
<1>3. HealthInv => GrantedButtonIsHealthy
  BY DEF HealthInv
<1>4. QED
  BY <1>1, <1>2, <1>3, TypeInit, TypeStep, PTL DEF Spec
=============================================================================
