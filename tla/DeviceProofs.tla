---------------------------- MODULE DeviceProofs ----------------------------
(***************************************************************************)
(* The device's tasks, for any notes and any commands.  The dispatcher     *)
(* serves one command at a time, approval included; the secret on the      *)
(* screen is that of the note selected, and of the card the owner looked   *)
(* at; and what is done to a note is what the owner was shown, since there *)
(* is one question at a time and the notes' ids are distinct.  Together    *)
(* the tasks implement the one Custodian.                                  *)
(***************************************************************************)
EXTENDS Device, FiniteSetTheorems, TLAPS

TaskShape == /\ DOMAIN task = Transports
             /\ \A t \in Transports : DOMAIN task[t] = {"at", "cmd"}

\* cmd_lock is held from the moment it is had until the reply is written.
LockInv == TaskShape /\ SourceIsCaller

LEMMA LockInit == Init => LockInv
BY DEF Init, LockInv, TaskShape, SourceIsCaller

\* A step of t within its command, or into it.
LEMMA MoveKeepsShape ==
    ASSUME TaskShape, NEW t \in Transports, NEW at,
           task' = [task EXCEPT ![t].at = at]
    PROVE  /\ TaskShape' /\ task'[t].at = at
           /\ \A u \in Transports \ {t} : task'[u] = task[u]
BY DEF TaskShape

LEMMA EntryKeepsShape ==
    ASSUME TaskShape, NEW t \in Transports, NEW at, NEW cmd,
           task' = [task EXCEPT ![t] = [at |-> at, cmd |-> cmd]]
    PROVE  /\ TaskShape' /\ task'[t].at = at
           /\ \A u \in Transports \ {t} : task'[u] = task[u]
BY DEF TaskShape

LEMMA TransportKeepsLock ==
    ASSUME LockInv, NEW t \in Transports,
           \/ \E c \in Commands : Arrive(t, c)
           \/ AcquireCmd(t) \/ Dispatch(t) \/ Answered(t) \/ Release(t)
    PROVE  LockInv'
<1> USE DEF LockInv
<1> Nil \notin Transports
  BY DeviceAssumption DEF Transports
<1>1. ASSUME NEW c \in Commands, Arrive(t, c) PROVE LockInv'
  <2>1. TaskShape' /\ task'[t].at = "lock" /\ \A u \in Transports \ {t} : task'[u] = task[u]
    BY <1>1, EntryKeepsShape DEF Arrive
  <2>2. UNCHANGED <<cmdLock, source>>
    BY <1>1 DEF Arrive, locks
  <2> QED
    BY <2>1, <2>2 DEF SourceIsCaller
<1>2. ASSUME AcquireCmd(t) PROVE LockInv'
  <2>1. TaskShape' /\ task'[t].at = "vault" /\ \A u \in Transports \ {t} : task'[u] = task[u]
    BY <1>2, MoveKeepsShape DEF AcquireCmd, Goto
  <2>2. cmdLock = Nil /\ cmdLock' = t /\ source' = t
    BY <1>2 DEF AcquireCmd
  <2> QED
    BY <2>1, <2>2 DEF SourceIsCaller
<1>3. ASSUME Dispatch(t) PROVE LockInv'
  <2>1. task[t].at = "vault" /\ UNCHANGED <<cmdLock, source>>
    BY <1>3 DEF Dispatch, ImportSecret, ExportSecret, PruneSpent, Refuse, Ask, locks
  <2>2. \/ task' = [task EXCEPT ![t].at = "wait"]
        \/ task' = [task EXCEPT ![t] = [at |-> "release", cmd |-> Nil]]
    BY <1>3 DEF Dispatch, ImportSecret, ExportSecret, PruneSpent, Refuse, Ask,
       Goto, Finish
  <2>3. TaskShape' /\ \A u \in Transports \ {t} : task'[u] = task[u]
    BY <2>2, MoveKeepsShape, EntryKeepsShape
  <2> QED
    BY <2>1, <2>3 DEF SourceIsCaller
<1>4. ASSUME Answered(t) PROVE LockInv'
  <2>1. task[t].at = "wait" /\ UNCHANGED <<cmdLock, source>>
    BY <1>4 DEF Answered
  <2>2. TaskShape' /\ \A u \in Transports \ {t} : task'[u] = task[u]
    BY <1>4, EntryKeepsShape DEF Answered, Finish
  <2> QED
    BY <2>1, <2>2 DEF SourceIsCaller
<1>5. ASSUME Release(t) PROVE LockInv'
  <2>1. task[t].at = "release" /\ source' = source
    BY <1>5 DEF Release
  <2>2. TaskShape' /\ task'[t].at = "idle" /\ \A u \in Transports \ {t} : task'[u] = task[u]
    BY <1>5, EntryKeepsShape DEF Release
  <2>3. \A u \in Transports \ {t} : task[u].at \notin {"vault", "wait", "release"}
    BY <2>1 DEF SourceIsCaller
  <2> QED
    BY <2>2, <2>3 DEF SourceIsCaller
<1> QED
  BY <1>1, <1>2, <1>3, <1>4, <1>5

LEMMA LockStep == LockInv /\ [Next]_vars => LockInv'
<1> SUFFICES ASSUME LockInv, [Next]_vars PROVE LockInv'
  OBVIOUS
<1>1. CASE UNCHANGED <<task, cmdLock, source>>
  BY <1>1 DEF LockInv, TaskShape, SourceIsCaller
<1>2. CASE UiTask
  BY <1>1, <1>2 DEF UiTask, Serve, Answer, HoldOver, Turn, Quiet, Tap, TapNothing, Draw,
     Unveil, Dismiss, GoIdle, ChangeUi, locks
<1>3. CASE AppMain
  BY <1>1, <1>3 DEF AppMain, StartBle, InitVault, StartSerial, StartUi, Bringup, locks
<1>4. CASE UNCHANGED vars
  BY <1>1, <1>4 DEF vars, locks
<1> QED
  BY <1>2, <1>3, <1>4, TransportKeepsLock DEF Next

\* The dispatcher's globals are never in use by two commands.
THEOREM OneCommandAtATime == Spec => []SourceIsCaller
<1>1. LockInv => SourceIsCaller
  BY DEF LockInv
<1> QED
  BY <1>1, LockInit, LockStep, PTL DEF Spec

-----------------------------------------------------------------------------
UiShape == DOMAIN ui = {"at", "mode", "index", "selected", "card", "qr", "request"}

\* A secret is on the screen only in the QR mode, or until the screen that
\* follows it is drawn.
QrOnlyInMode == ui.qr # Nil => ui.mode = "qr" \/ ui.at = "draw"

\* Until ui_task is started it does nothing.
DarkUntilStarted == stage # "ui" => ui.at = "off" /\ ui.qr = Nil

ScreenInv == UiShape /\ QrOnlyInMode /\ DarkUntilStarted /\ DisclosedIsSelected

LEMMA ScreenInit == Init => ScreenInv
BY DEF Init, ScreenInv, UiShape, QrOnlyInMode, DarkUntilStarted, DisclosedIsSelected

LEMMA UiKeepsScreen == ScreenInv /\ UiTask => ScreenInv'
<1> SUFFICES ASSUME ScreenInv, UiTask PROVE ScreenInv'
  OBVIOUS
<1>0. DarkUntilStarted'
  BY DEF ScreenInv, DarkUntilStarted, UiTask, Serve, Answer, HoldOver, Turn, Quiet, Tap,
     TapNothing, Draw, Unveil, Dismiss, GoIdle, Browsing, ChangeUi
<1> USE <1>0 DEF ScreenInv, UiShape, QrOnlyInMode, DisclosedIsSelected
<1>1. CASE Serve
  BY <1>1 DEF Serve
<1>2. ASSUME NEW a \in {"yes", "no"}, Answer(a) PROVE ScreenInv'
  BY <1>2 DEF Answer
<1>3. CASE HoldOver
  BY <1>3 DEF HoldOver, Resting
<1>4. CASE Tap
  <2>1. ui.at = "turn" /\ ui.mode # "qr"
    BY <1>4 DEF Tap, Browsing
  <2>2. PICK i \in DOMAIN notes :
          ui' = [ui EXCEPT !.at = "draw", !.mode = "browse", !.index = i,
                           !.selected = notes[i].id]
    BY <1>4 DEF Tap
  <2> QED
    BY <2>1, <2>2
<1>5. CASE TapNothing
  BY <1>5 DEF TapNothing, Browsing
<1>6. CASE Draw
  BY <1>6 DEF Draw
<1>7. CASE Unveil
  <2>1. CASE ui' = [ui EXCEPT !.mode = "qr", !.at = "loop", !.qr = Unveiled]
    BY <2>1 DEF Unveiled
  <2>2. CASE ui' = [ui EXCEPT !.mode = "browse", !.at = "draw", !.qr = Nil]
    BY <2>2
  <2> QED
    BY <1>7, <2>1, <2>2 DEF Unveil
<1>8. CASE Dismiss
  BY <1>8 DEF Dismiss
<1>9. CASE GoIdle
  BY <1>9 DEF GoIdle, Resting
<1>10. CASE Turn
  BY <1>10 DEF Turn
<1>11. CASE Quiet
  BY <1>11 DEF Quiet, Browsing
<1> QED
  BY <1>1, <1>2, <1>3, <1>4, <1>5, <1>6, <1>7, <1>8, <1>9, <1>10, <1>11 DEF UiTask

LEMMA ScreenStep == ScreenInv /\ [Next]_vars => ScreenInv'
<1> SUFFICES ASSUME ScreenInv, [Next]_vars PROVE ScreenInv'
  OBVIOUS
<1>1. CASE ui' = ui /\ (stage = "ui" => stage' = "ui")
  BY <1>1 DEF ScreenInv, UiShape, QrOnlyInMode, DarkUntilStarted, DisclosedIsSelected
<1>2. ASSUME NEW t \in Transports,
             \/ \E c \in Commands : Arrive(t, c)
             \/ AcquireCmd(t) \/ Dispatch(t) \/ Answered(t) \/ Release(t)
      PROVE  ScreenInv'
  BY <1>1, <1>2 DEF Arrive, AcquireCmd, Dispatch, Answered, Release
<1>3. CASE StartUi
  <2>1. ui.at = "off" /\ ui.qr = Nil /\ stage' = "ui" /\ ui' = [ui EXCEPT !.at = "loop"]
    BY <1>3 DEF StartUi, Bringup, ScreenInv, DarkUntilStarted
  <2>2. UiShape' /\ ui'.qr = Nil
    BY <2>1 DEF ScreenInv, UiShape
  <2> QED
    BY <2>1, <2>2 DEF ScreenInv, QrOnlyInMode, DarkUntilStarted, DisclosedIsSelected
<1>4. CASE StartBle \/ InitVault \/ StartSerial
  BY <1>1, <1>4 DEF StartBle, InitVault, StartSerial, Bringup
<1>5. CASE UNCHANGED vars
  BY <1>1, <1>5 DEF vars
<1> QED
  BY <1>2, <1>3, <1>4, <1>5, UiKeepsScreen DEF Next, AppMain

\* unveil() discloses the note that was selected, whatever became of the
\* note array since.
THEOREM SecretIsOfTheSelected == Spec => []DisclosedIsSelected
<1>1. ScreenInv => DisclosedIsSelected
  BY DEF ScreenInv
<1> QED
  BY <1>1, ScreenInit, ScreenStep, PTL DEF Spec

-----------------------------------------------------------------------------
(***************************************************************************)
(* The note array: notes of distinct ids, compacted without losing one.    *)
(***************************************************************************)
Distinct(s) == \A i, j \in DOMAIN s : s[i].id = s[j].id => i = j

NotesInv == /\ notes \in Seq(Note) /\ Distinct(notes)
            /\ \A i \in DOMAIN notes : notes[i].id \in used
            /\ \A i \in DOMAIN Stored : Stored[i].id \in used

\* Each place in S has a rank of its own, and each rank up to their number is
\* that of a place.
LEMMA RanksArePlaces ==
    ASSUME NEW n \in Nat, NEW S \in SUBSET (1 .. n)
    PROVE  /\ Cardinality(S) \in Nat
           /\ \A i \in S : Rank(S, i) \in 1 .. Cardinality(S)
           /\ \A i, j \in S : Rank(S, i) = Rank(S, j) => i = j
           /\ \A k \in 1 .. Cardinality(S) : \E i \in S : Rank(S, i) = k
<1> DEFINE Below(i) == {j \in S : j <= i}
<1>1. IsFiniteSet(S) /\ Cardinality(S) \in Nat
  <2>1. IsFiniteSet(1 .. n)
    BY FS_Interval
  <2>2. IsFiniteSet(S)
    BY <2>1, FS_Subset
  <2> QED
    BY <2>2, FS_CardinalityType
<1>2. ASSUME NEW i \in S
      PROVE  IsFiniteSet(Below(i)) /\ Rank(S, i) \in 1 .. Cardinality(S)
  <2>1. Below(i) \in SUBSET S /\ i \in Below(i)
    OBVIOUS
  <2>2. IsFiniteSet(Below(i)) /\ Cardinality(Below(i)) <= Cardinality(S)
    BY <1>1, <2>1, FS_Subset
  <2>3. Cardinality(Below(i)) \in Nat /\ Cardinality(Below(i)) # 0
    BY <2>1, <2>2, FS_CardinalityType, FS_EmptySet
  <2> QED
    BY <1>1, <2>2, <2>3 DEF Rank
<1>3. ASSUME NEW i \in S, NEW j \in S, i < j PROVE Rank(S, i) # Rank(S, j)
  <2>0. i \in Nat /\ j \in Nat /\ \A k \in S : k \in Nat
    OBVIOUS
  <2>1. \A k \in S : k <= i => k <= j
    BY <1>3, <2>0
  <2>2. Below(i) \in SUBSET Below(j)
    BY <2>1
  <2>3. j <= j /\ ~(j <= i)
    BY <1>3, <2>0
  <2>4. j \in Below(j) /\ j \notin Below(i)
    BY <2>3
  <2>5. Cardinality(Below(j)) # Cardinality(Below(i))
    BY <1>2, <2>2, <2>4, FS_Subset
  <2> QED
    BY <2>5 DEF Rank
<1>4. \A i, j \in S : Rank(S, i) = Rank(S, j) => i = j
  BY <1>3
<1>5. \A k \in 1 .. Cardinality(S) : \E i \in S : Rank(S, i) = k
  <2> DEFINE T == 1 .. Cardinality(S)
             f == [i \in S |-> Rank(S, i)]
  <2>1. f \in [S -> T]
    BY <1>2
  <2>2. f \in Injection(S, T)
    BY <1>4, <2>1 DEF Injection, IsInjective
  <2>3. IsFiniteSet(T) /\ Cardinality(T) = Cardinality(S)
    BY <1>1, FS_Interval
  <2>4. f \in Surjection(S, T)
    BY <2>2, <2>3, FS_Injection
  <2> QED
    BY <2>4 DEF Surjection
<1> QED
  BY <1>1, <1>2, <1>4, <1>5

\* Compaction keeps exactly the notes it is to keep, each once.
LEMMA KeptKeeps ==
    ASSUME notes \in Seq(Note), Distinct(notes), NEW S \in SUBSET DOMAIN notes
    PROVE  /\ Kept(S) \in Seq(Note) /\ Distinct(Kept(S))
           /\ \A k \in DOMAIN Kept(S) : \E i \in S : Kept(S)[k] = notes[i]
           /\ \A i \in S : \E k \in DOMAIN Kept(S) : Kept(S)[k] = notes[i]
<1> DEFINE n == Cardinality(S)
           At(k) == CHOOSE i \in S : Rank(S, i) = k
<1>1. /\ n \in Nat
      /\ \A i \in S : Rank(S, i) \in 1 .. n
      /\ \A i, j \in S : Rank(S, i) = Rank(S, j) => i = j
      /\ \A k \in 1 .. n : \E i \in S : Rank(S, i) = k
  <2>1. Len(notes) \in Nat /\ S \in SUBSET (1 .. Len(notes))
    OBVIOUS
  <2> QED
    BY <2>1, RanksArePlaces
<1>2. \A k \in 1 .. n : At(k) \in S /\ Rank(S, At(k)) = k
  BY <1>1
<1>3. \A i \in S : At(Rank(S, i)) = i
  BY <1>1, <1>2
<1>4. DOMAIN Kept(S) = 1 .. n /\ \A k \in 1 .. n : Kept(S)[k] = notes[At(k)]
  BY DEF Kept
<1>5. \A i \in S : notes[i] \in Note
  OBVIOUS
<1>6. Kept(S) \in [1 .. n -> Note]
  BY <1>2, <1>4, <1>5 DEF Kept
<1>7. Kept(S) \in Seq(Note)
  BY <1>1, <1>6
<1>8. Distinct(Kept(S))
  BY <1>2, <1>4 DEF Distinct
<1> QED
  BY <1>1, <1>2, <1>3, <1>4, <1>7, <1>8

\* The note an id names is the one note that has it.
LEMMA LookupFinds ==
    ASSUME Distinct(notes), NEW i \in DOMAIN notes
    PROVE  Lookup(notes[i].id) = notes[i]
BY DEF Lookup, HasNote, Distinct

\* An approved command leaves notes with distinct ids, and none that was not
\* there before.
LEMMA ActKeepsNotes ==
    ASSUME NotesInv, used' = used, NEW c, Act(c)
    PROVE  NotesInv'
<1> USE DEF NotesInv
<1>1. ASSUME NEW S \in SUBSET DOMAIN notes, notes' = Kept(S) PROVE NotesInv'
  BY <1>1, KeptKeeps
<1>2. ASSUME NEW id, MarkSpent(id) PROVE NotesInv'
  <2>1. DOMAIN notes = 1 .. Len(notes) /\ Len(notes) \in Nat
    OBVIOUS
  <2>2. \A i \in DOMAIN notes : notes[i] \in Note /\ [notes[i] EXCEPT !.state = "spent"] \in Note
    <3> SUFFICES ASSUME NEW i \in DOMAIN notes
                 PROVE  notes[i] \in Note /\ [notes[i] EXCEPT !.state = "spent"] \in Note
      OBVIOUS
    <3>1. notes[i] \in Note
      OBVIOUS
    <3> QED
      BY <3>1 DEF Note, NoteState
  <2>3. notes' \in [1 .. Len(notes) -> Note]
    BY <1>2, <2>1, <2>2 DEF MarkSpent
  <2>4. notes' \in Seq(Note) /\ DOMAIN notes' = DOMAIN notes
    BY <2>1, <2>3
  <2>5. \A i \in DOMAIN notes : notes'[i].id = notes[i].id
    BY <1>2, <2>2 DEF MarkSpent, Note
  <2> QED
    BY <2>4, <2>5 DEF Distinct
<1>3. ASSUME notes' = notes PROVE NotesInv'
  BY <1>3
<1>4. ASSUME NEW id, Delete(id) PROVE NotesInv'
  BY <1>1, <1>4 DEF Delete
<1>5. ASSUME Sweep PROVE NotesInv'
  BY <1>1, <1>5 DEF Sweep
<1> QED
  BY <1>2, <1>3, <1>4, <1>5 DEF Act

LEMMA NotesInit == Init => NotesInv
BY DeviceAssumption DEF Init, NotesInv, Distinct

LEMMA NotesStep == NotesInv /\ [Next]_vars => NotesInv'
<1> SUFFICES ASSUME NotesInv, [Next]_vars PROVE NotesInv'
  OBVIOUS
<1>1. CASE UNCHANGED <<notes, used>>
  BY <1>1 DEF NotesInv
<1>2. ASSUME NEW t \in Transports, Dispatch(t) PROVE NotesInv'
  <2>1. CASE ImportSecret(t)
    <3>1. PICK id \in NoteIds \ used :
            /\ notes' = Append(notes, [id |-> id, state |-> "confirmed"])
            /\ used' = used \cup {id}
      BY <2>1 DEF ImportSecret
    <3>2. [id |-> id, state |-> "confirmed"] \in Note
      BY <3>1 DEF Note, NoteState
    <3> QED
      BY <3>1, <3>2 DEF NotesInv, Distinct
  <2> QED
    BY <1>1, <1>2, <2>1 DEF Dispatch, ExportSecret, PruneSpent, Refuse, Ask
<1>3. ASSUME NEW t \in Transports, Answered(t) PROVE NotesInv'
  BY <1>1, <1>3, ActKeepsNotes DEF Answered
<1>4. ASSUME NEW t \in Transports,
             (\E c \in Commands : Arrive(t, c)) \/ AcquireCmd(t) \/ Release(t)
      PROVE  NotesInv'
  BY <1>1, <1>4 DEF Arrive, AcquireCmd, Release
<1>5. CASE UiTask
  BY <1>1, <1>5 DEF UiTask, Serve, Answer, HoldOver, Turn, Quiet, Tap, TapNothing, Draw,
     Unveil, Dismiss, GoIdle, ChangeUi
<1>6. CASE InitVault
  <2>1. notes' = Stored /\ used' = used
    BY <1>6 DEF InitVault, Bringup
  <2> QED
    BY <2>1, DeviceAssumption DEF NotesInv, Distinct
<1>7. CASE StartBle \/ StartSerial \/ StartUi
  BY <1>1, <1>7 DEF StartBle, StartSerial, StartUi, Bringup
<1>8. CASE UNCHANGED vars
  BY <1>1, <1>8 DEF vars
<1> QED
  BY <1>2, <1>3, <1>4, <1>5, <1>6, <1>7, <1>8 DEF Next, AppMain

-----------------------------------------------------------------------------
(***************************************************************************)
(* The question in flight: at most one, on its way through the request     *)
(* queue, the screen and the response queue of the task that waits for it. *)
(* Only the holder of cmd_lock changes notes, and it waits: so the card    *)
(* stays true.                                                             *)
(***************************************************************************)
\* What q carries is what would be read now, unless the vault was not loaded.
UpToDate(q, t) ==
    \/ q.early
    \/ /\ stage \notin {"boot", "ble"}
       /\ q.card = Question(t).card /\ q.count = Question(t).count

NoReplies(T) == \A u \in T : reply[u] = NoReply
Prompting == ui.at = "prompt"

Queued(t) == /\ requests = <<Head(requests)>> /\ ~Prompting /\ NoReplies(Transports)
             /\ Head(requests).from = t /\ UpToDate(Head(requests), t)
OnScreen(t) == /\ requests = <<>> /\ Prompting /\ NoReplies(Transports)
               /\ ui.request.from = t /\ UpToDate(ui.request, t)
Replied(t) == /\ requests = <<>> /\ ~Prompting /\ NoReplies(Transports \ {t})
              /\ reply[t].answer # "none" /\ UpToDate(reply[t], t)

NothingAsked == requests = <<>> /\ ~Prompting /\ NoReplies(Transports)

OneQuestion ==
    \/ (\A t \in Transports : task[t].at # "wait") /\ NothingAsked
    \/ \E t \in Transports : task[t].at = "wait" /\ (Queued(t) \/ OnScreen(t) \/ Replied(t))

QuestionInv == /\ DOMAIN reply = Transports
               /\ \A t \in Transports : task[t].at # "idle" => stage # "boot"
               /\ OneQuestion

\* What the parts of the invariant say of one task.
LEMMA OneWaits ==
    ASSUME LockInv, NEW t \in Transports, task[t].at \in {"vault", "wait", "release"}
    PROVE  \A u \in Transports : u # t => task[u].at \notin {"vault", "wait", "release"}
BY DEF LockInv, SourceIsCaller

LEMMA QuestionInit == Init => QuestionInv
BY DEF Init, QuestionInv, OneQuestion, NothingAsked, Prompting, NoReplies

\* A question stays true while the note array and the command asking stay.
LEMMA QuestionStays ==
    ASSUME NEW t \in Transports, NEW q, UpToDate(q, t),
           task'[t].cmd = task[t].cmd,
           \/ notes' = notes /\ (stage \notin {"boot", "ble"} => stage' \notin {"boot", "ble"})
           \/ stage \in {"boot", "ble"}
    PROVE  q.early \/ (/\ stage' \notin {"boot", "ble"}
                       /\ q.card = Question(t)'.card /\ q.count = Question(t)'.count)
BY DEF UpToDate, Question, Lookup, HasNote, Spent

\* A step that touches neither queue nor prompt, nor a task at its wait.
LEMMA QuestionKept ==
    ASSUME QuestionInv, UNCHANGED <<requests, reply>>,
           \/ notes' = notes /\ (stage \notin {"boot", "ble"} => stage' \notin {"boot", "ble"})
           \/ stage \in {"boot", "ble"},
           stage' # "boot" \/ \A t \in Transports : task'[t].at = "idle",
           Prompting' = Prompting, Prompting => ui'.request = ui.request,
           \A t \in Transports : /\ task[t].at = "wait" <=> task'[t].at = "wait"
                                 /\ task[t].at = "wait" => task'[t].cmd = task[t].cmd
    PROVE  QuestionInv'
<1>1. CASE (\A t \in Transports : task[t].at # "wait") /\ NothingAsked
  <2>1. (\A t \in Transports : task'[t].at # "wait") /\ NothingAsked'
    BY <1>1 DEF NothingAsked, NoReplies
  <2> QED
    BY <2>1 DEF QuestionInv, OneQuestion
<1>2. ASSUME NEW t \in Transports, task[t].at = "wait", Queued(t) \/ OnScreen(t) \/ Replied(t)
      PROVE  QuestionInv'
  <2>1. task'[t].at = "wait" /\ task'[t].cmd = task[t].cmd
    BY <1>2
  <2>2. CASE Queued(t)
    <3>1. UpToDate(Head(requests), t)'
      BY <2>1, <2>2, QuestionStays DEF Queued, UpToDate
    <3>2. Queued(t)'
      BY <2>2, <3>1 DEF Queued, NoReplies
    <3> QED
      BY <2>1, <3>2 DEF QuestionInv, OneQuestion
  <2>3. CASE OnScreen(t)
    <3>1. UpToDate(ui.request, t)'
      BY <2>1, <2>3, QuestionStays DEF OnScreen, UpToDate
    <3>2. OnScreen(t)'
      BY <2>3, <3>1 DEF OnScreen, NoReplies
    <3> QED
      BY <2>1, <3>2 DEF QuestionInv, OneQuestion
  <2>4. CASE Replied(t)
    <3>1. UpToDate(reply[t], t)'
      BY <2>1, <2>4, QuestionStays DEF Replied, UpToDate
    <3>2. Replied(t)'
      BY <2>4, <3>1 DEF Replied, NoReplies
    <3> QED
      BY <2>1, <3>2 DEF QuestionInv, OneQuestion
  <2> QED
    BY <1>2, <2>2, <2>3, <2>4
<1> QED
  BY <1>1, <1>2 DEF QuestionInv, OneQuestion

LEMMA TransportKeepsQuestion ==
    ASSUME LockInv, QuestionInv, NEW t \in Transports,
           \/ \E c \in Commands : Arrive(t, c)
           \/ AcquireCmd(t) \/ Dispatch(t) \/ Answered(t) \/ Release(t)
    PROVE  QuestionInv'
<1> USE DEF LockInv
<1>0. Nil \notin Transports /\ stage' = stage /\ ui' = ui
  BY DeviceAssumption DEF Transports, Arrive, AcquireCmd, Dispatch, Answered, Release
<1>1. ASSUME NEW c \in Commands, Arrive(t, c) PROVE QuestionInv'
  <2>1. /\ task[t].at = "idle" /\ task'[t].at = "lock" /\ stage # "boot"
        /\ \A u \in Transports \ {t} : task'[u] = task[u]
    BY <1>1, EntryKeepsShape DEF Arrive, LinkUp
  <2>2. UNCHANGED <<requests, reply, notes>>
    BY <1>1 DEF Arrive
  <2> QED
    BY <1>0, <2>1, <2>2, QuestionKept DEF Prompting
<1>2. ASSUME AcquireCmd(t) PROVE QuestionInv'
  <2>1. /\ task[t].at = "lock" /\ task'[t].at = "vault"
        /\ \A u \in Transports \ {t} : task'[u] = task[u]
    BY <1>2, MoveKeepsShape DEF AcquireCmd, Goto
  <2>2. UNCHANGED <<requests, reply, notes>> /\ stage # "boot"
    BY <1>2, <2>1 DEF AcquireCmd, QuestionInv
  <2> QED
    BY <1>0, <2>1, <2>2, QuestionKept DEF Prompting
<1>3. ASSUME Dispatch(t) PROVE QuestionInv'
  <2>1. task[t].at = "vault" /\ reply' = reply /\ stage # "boot"
    BY <1>3 DEF Dispatch, QuestionInv
  <2>2. NothingAsked /\ \A u \in Transports : task[u].at # "wait"
    BY <2>1, OneWaits DEF QuestionInv, OneQuestion
  <2>3. CASE Ask(t)
    <3>1. /\ task'[t].at = "wait" /\ task'[t].cmd = task[t].cmd
          /\ \A u \in Transports \ {t} : task'[u] = task[u]
      BY <2>3 DEF Ask, Goto, TaskShape
    <3>2. requests' = <<Question(t)>> /\ notes' = notes
      BY <2>2, <2>3 DEF Ask, NothingAsked
    <3>3. Question(t).from = t /\ UpToDate(Question(t), t)
      BY <2>1, <1>0, <1>3 DEF Question, UpToDate
    <3>4. UpToDate(Question(t), t)' /\ Question(t)' = Question(t)
      BY <1>0, <3>1, <3>2, <3>3 DEF UpToDate, Question, Lookup, HasNote, Spent
    <3>5. Queued(t)'
      BY <1>0, <2>1, <2>2, <3>2, <3>3, <3>4 DEF Queued, NothingAsked, NoReplies, Prompting
    <3> QED
      BY <1>0, <2>1, <3>1, <3>5 DEF QuestionInv, OneQuestion
  <2>4. CASE requests' = requests /\ Finish(t)
    <3>1. task'[t].at = "release" /\ \A u \in Transports \ {t} : task'[u] = task[u]
      BY <2>4, EntryKeepsShape DEF Finish
    <3>2. NothingAsked' /\ \A u \in Transports : task'[u].at # "wait"
      BY <1>0, <2>1, <2>2, <2>4, <3>1 DEF NothingAsked, NoReplies, Prompting
    <3> QED
      BY <1>0, <2>1, <3>2 DEF QuestionInv, OneQuestion
  <2> QED
    BY <1>3, <2>3, <2>4 DEF Dispatch, ImportSecret, ExportSecret, PruneSpent, Refuse
<1>4. ASSUME Answered(t) PROVE QuestionInv'
  <2>1. task[t].at = "wait" /\ reply[t] # NoReply /\ stage # "boot"
    BY <1>4 DEF Answered, QuestionInv
  <2>2. Replied(t) /\ \A u \in Transports \ {t} : task[u].at # "wait"
    BY <2>1, OneWaits DEF QuestionInv, OneQuestion, NothingAsked, Queued, OnScreen, NoReplies
  <2>3. task'[t].at = "release" /\ \A u \in Transports \ {t} : task'[u] = task[u]
    BY <1>4, EntryKeepsShape DEF Answered, Finish
  <2>4. requests' = requests /\ reply' = [reply EXCEPT ![t] = NoReply]
    BY <1>4 DEF Answered
  <2>5. NothingAsked' /\ \A u \in Transports : task'[u].at # "wait"
    BY <1>0, <2>2, <2>3, <2>4 DEF NothingAsked, Replied, NoReplies, Prompting, QuestionInv
  <2> QED
    BY <1>0, <2>1, <2>4, <2>5 DEF QuestionInv, OneQuestion
<1>5. ASSUME Release(t) PROVE QuestionInv'
  <2>1. /\ task[t].at = "release" /\ task'[t].at = "idle"
        /\ \A u \in Transports \ {t} : task'[u] = task[u]
    BY <1>5, EntryKeepsShape DEF Release
  <2>2. UNCHANGED <<requests, reply, notes>> /\ stage # "boot"
    BY <1>5, <2>1 DEF Release, QuestionInv
  <2> QED
    BY <1>0, <2>1, <2>2, QuestionKept DEF Prompting
<1> QED
  BY <1>1, <1>2, <1>3, <1>4, <1>5

LEMMA UiKeepsQuestion == UiShape /\ QuestionInv /\ UiTask => QuestionInv'
<1> SUFFICES ASSUME UiShape, QuestionInv, UiTask PROVE QuestionInv'
  OBVIOUS
<1>1. UNCHANGED <<stage, notes, task>>
  BY DEF UiTask, Serve, Answer, HoldOver, Turn, Quiet, Tap, TapNothing, Draw, Unveil,
     Dismiss, GoIdle, ChangeUi
<1>2. stage' # "boot" \/ \A t \in Transports : task'[t].at = "idle"
  BY <1>1 DEF QuestionInv
<1>3. CASE UNCHANGED <<requests, reply>> /\ ~Prompting /\ ~Prompting'
  BY <1>1, <1>2, <1>3, QuestionKept DEF Prompting
<1>4. CASE Serve
  <2>1. PICK t \in Transports : task[t].at = "wait" /\ Queued(t)
    BY <1>4 DEF Serve, QuestionInv, OneQuestion, NothingAsked, OnScreen, Replied
  <2>2. requests' = <<>> /\ reply' = reply /\ Prompting' /\ ui'.request = Head(requests)
    <3>1. requests = <<Head(requests)>> /\ requests' = Tail(requests) /\ reply' = reply
      BY <1>4, <2>1 DEF Serve, Queued
    <3>2. requests' = <<>>
      BY <3>1
    <3>3. Prompting' /\ ui'.request = Head(requests)
      BY <1>4 DEF Serve, Prompting, UiShape
    <3> QED
      BY <3>1, <3>2, <3>3
  <2>3. UpToDate(ui.request, t)'
    BY <1>1, <2>1, <2>2 DEF Queued, UpToDate, Question, Lookup, HasNote, Spent
  <2>4. OnScreen(t)'
    BY <2>1, <2>2, <2>3 DEF Queued, OnScreen, NoReplies
  <2> QED
    BY <1>1, <2>1, <2>2, <2>4 DEF QuestionInv, OneQuestion
<1>5. ASSUME NEW a \in {"yes", "no"}, Answer(a) PROVE QuestionInv'
  <2>1. PICK t \in Transports : task[t].at = "wait" /\ OnScreen(t)
    BY <1>5 DEF Answer, QuestionInv, OneQuestion, NothingAsked, Queued, Replied, Prompting
  <2>2. /\ requests' = requests /\ ~Prompting'
        /\ reply' = [reply EXCEPT ![t] = [answer |-> a, card |-> ui.request.card,
                        count |-> ui.request.count, early |-> ui.request.early]]
    BY <1>5, <2>1 DEF Answer, OnScreen, Prompting, UiShape
  <2>3. /\ DOMAIN reply' = Transports
        /\ reply'[t] = [answer |-> a, card |-> ui.request.card,
                        count |-> ui.request.count, early |-> ui.request.early]
        /\ \A u \in Transports \ {t} : reply'[u] = reply[u]
    BY <2>2 DEF QuestionInv
  <2>4. UpToDate(reply[t], t)' /\ reply'[t].answer # "none"
    BY <1>1, <2>1, <2>3 DEF OnScreen, UpToDate, Question, Lookup, HasNote, Spent
  <2>5. Replied(t)'
    BY <2>1, <2>2, <2>3, <2>4 DEF OnScreen, Replied, NoReplies
  <2> QED
    BY <1>1, <2>1, <2>3, <2>5 DEF QuestionInv, OneQuestion
<1>6. CASE HoldOver \/ Turn \/ Quiet \/ Tap \/ TapNothing \/ Draw \/ Unveil \/ Dismiss \/ GoIdle
  <2>1. UNCHANGED <<requests, reply>> /\ ~Prompting
    BY <1>6 DEF HoldOver, Turn, Quiet, Tap, TapNothing, Draw, Unveil, Dismiss, GoIdle,
       Browsing, Prompting
  <2>2. ui'.at # "prompt"
    BY <1>6 DEF HoldOver, Turn, Quiet, Tap, TapNothing, Draw, Unveil, Dismiss, GoIdle,
       Resting, UiShape
  <2> QED
    BY <1>3, <2>1, <2>2 DEF Prompting
<1> QED
  BY <1>4, <1>5, <1>6 DEF UiTask

LEMMA QuestionStep ==
    LockInv /\ ScreenInv /\ QuestionInv /\ [Next]_vars => QuestionInv'
<1> SUFFICES ASSUME LockInv, ScreenInv, QuestionInv, [Next]_vars PROVE QuestionInv'
  OBVIOUS
<1>1. CASE UiTask
  BY <1>1, UiKeepsQuestion DEF ScreenInv
<1>2. CASE AppMain
  <2>1. UNCHANGED <<task, requests, reply>> /\ stage' # "boot"
    BY <1>2 DEF AppMain, StartBle, InitVault, StartSerial, StartUi, Bringup
  <2>2. Prompting' = Prompting /\ (Prompting => ui'.request = ui.request)
    <3>1. CASE ui' = ui
      BY <3>1 DEF Prompting
    <3>2. CASE StartUi
      BY <3>2 DEF StartUi, Bringup, Prompting, ScreenInv, DarkUntilStarted, UiShape
    <3> QED
      BY <1>2, <3>1, <3>2 DEF AppMain, StartBle, InitVault, StartSerial
  <2>3. \/ notes' = notes /\ (stage \notin {"boot", "ble"} => stage' \notin {"boot", "ble"})
        \/ stage \in {"boot", "ble"}
    BY <1>2 DEF AppMain, StartBle, InitVault, StartSerial, StartUi, Bringup
  <2> QED
    BY <2>1, <2>2, <2>3, QuestionKept
<1>3. CASE UNCHANGED vars
  <2>1. UNCHANGED <<stage, notes, task, requests, reply, ui>>
    BY <1>3 DEF vars
  <2> QED
    BY <2>1, QuestionKept DEF QuestionInv, Prompting
<1> QED
  BY <1>1, <1>2, <1>3, TransportKeepsQuestion DEF Next

-----------------------------------------------------------------------------
\* What the step of ActsAsShown must satisfy.
OnlyShownGoes ==
    \A i \in DOMAIN notes : stage' = stage /\ Destroyed(i) =>
        \E t \in Transports : ApprovedBy(t) /\ (Shown(t, i) \/ reply[t].early)

\* The notes a command destroys are the ones its question was about.
LEMMA ActDestroysTheNamed ==
    ASSUME NotesInv, NEW c, Act(c), NEW i \in DOMAIN notes, Destroyed(i)
    PROVE  \/ c # Prune /\ notes[i] = Lookup(c.id)
           \/ c = Prune /\ i \in Spent /\ Spent = {j \in DOMAIN notes : Destroyed(j)}
<1> USE DEF NotesInv
<1>0. Prune.do = "prune"
  BY DEF Prune
<1>1. CASE MarkSpent(c.id) /\ c # Prune
  <2>1. notes[i].id = c.id
    BY <1>1 DEF MarkSpent, Destroyed
  <2> QED
    BY <1>1, <2>1, LookupFinds
<1>2. CASE Delete(c.id) /\ c # Prune
  <2> DEFINE S == {j \in DOMAIN notes : notes[j].id # c.id}
  <2>1. notes' = Kept(S)
    BY <1>2 DEF Delete
  <2>2. i \notin S
    BY <2>1, KeptKeeps DEF Destroyed
  <2> QED
    BY <1>2, <2>2, LookupFinds
<1>3. CASE Sweep /\ c = Prune
  <2> DEFINE S == DOMAIN notes \ Spent
  <2>1. notes' = Kept(S)
    BY <1>3 DEF Sweep
  <2>2. \A j \in S : ~Destroyed(j)
    BY <2>1, KeptKeeps DEF Destroyed
  <2>3. ASSUME NEW j \in Spent PROVE Destroyed(j)
    <3>1. j \in DOMAIN notes /\ j \notin S
      BY DEF Spent
    <3>2. \A k \in S : notes[k] # notes[j]
      BY <3>1 DEF Distinct
    <3> QED
      BY <2>1, <3>2, KeptKeeps DEF Destroyed
  <2>4. Spent \in SUBSET DOMAIN notes
    BY DEF Spent
  <2> QED
    BY <1>3, <2>2, <2>3, <2>4
<1>4. CASE UNCHANGED notes
  BY <1>4 DEF Destroyed
<1> QED
  BY <1>0, <1>1, <1>2, <1>3, <1>4 DEF Act

LEMMA AnswerActsAsShown ==
    ASSUME LockInv, NotesInv, QuestionInv, NEW t \in Transports, Answered(t)
    PROVE  OnlyShownGoes
<1> SUFFICES ASSUME NEW i \in DOMAIN notes, Destroyed(i)
             PROVE  ApprovedBy(t) /\ (Shown(t, i) \/ reply[t].early)
  BY DEF OnlyShownGoes
<1>1. reply[t].answer = "yes" /\ Act(task[t].cmd)
  BY DEF Answered, Destroyed
<1>2. Replied(t)
  <2>1. task[t].at = "wait" /\ reply[t] # NoReply
    BY DEF Answered
  <2>2. \A u \in Transports \ {t} : task[u].at # "wait"
    BY <2>1, OneWaits
  <2> QED
    BY <2>1, <2>2 DEF QuestionInv, OneQuestion, NothingAsked, Queued, OnScreen, NoReplies
<1>3. \/ reply[t].early
      \/ reply[t].card = Question(t).card /\ reply[t].count = Question(t).count
  BY <1>2 DEF Replied, UpToDate
<1>4. CASE task[t].cmd # Prune /\ notes[i] = Lookup(task[t].cmd.id)
  BY <1>1, <1>3, <1>4 DEF ApprovedBy, Shown, Question
<1>5. CASE task[t].cmd = Prune /\ i \in Spent /\ Spent = {j \in DOMAIN notes : Destroyed(j)}
  <2>1. Question(t).count = Cardinality({j \in DOMAIN notes : Destroyed(j)})
    BY <1>5 DEF Question
  <2> QED
    BY <1>1, <1>3, <1>5, <2>1 DEF ApprovedBy, Shown
<1> QED
  BY <1>1, <1>4, <1>5, ActDestroysTheNamed

LEMMA StepActsAsShown ==
    LockInv /\ NotesInv /\ QuestionInv /\ [Next]_vars => OnlyShownGoes
<1> SUFFICES ASSUME LockInv, NotesInv, QuestionInv, [Next]_vars PROVE OnlyShownGoes
  OBVIOUS
<1>1. CASE notes' = notes
  BY <1>1 DEF OnlyShownGoes, Destroyed
<1>2. ASSUME NEW t \in Transports, Dispatch(t) PROVE OnlyShownGoes
  <2>1. CASE ImportSecret(t)
    <3>1. \A i \in DOMAIN notes : i \in DOMAIN notes' /\ notes'[i] = notes[i]
      BY <2>1 DEF ImportSecret, NotesInv
    <3> QED
      BY <3>1 DEF OnlyShownGoes, Destroyed
  <2> QED
    BY <1>1, <1>2, <2>1 DEF Dispatch, ExportSecret, PruneSpent, Refuse, Ask
<1>3. ASSUME NEW t \in Transports, Answered(t) PROVE OnlyShownGoes
  BY <1>3, AnswerActsAsShown
<1>4. ASSUME NEW t \in Transports,
             (\E c \in Commands : Arrive(t, c)) \/ AcquireCmd(t) \/ Release(t)
      PROVE  OnlyShownGoes
  BY <1>1, <1>4 DEF Arrive, AcquireCmd, Release
<1>5. CASE UiTask
  BY <1>1, <1>5 DEF UiTask, Serve, Answer, HoldOver, Turn, Quiet, Tap, TapNothing, Draw,
     Unveil, Dismiss, GoIdle, ChangeUi
<1>6. CASE InitVault
  BY <1>6 DEF InitVault, Bringup, OnlyShownGoes
<1>7. CASE StartBle \/ StartSerial \/ StartUi
  BY <1>1, <1>7 DEF StartBle, StartSerial, StartUi, Bringup
<1>8. CASE UNCHANGED vars
  BY <1>1, <1>8 DEF vars
<1> QED
  BY <1>2, <1>3, <1>4, <1>5, <1>6, <1>7, <1>8 DEF Next, AppMain

\* A note held changes or goes only by a command the owner approved with that
\* note, as it still is, or with the right number of spent notes on the card.
THEOREM DestroyedAsShown == Spec => ActsAsShown
<1> DEFINE AllInv == LockInv /\ ScreenInv /\ NotesInv /\ QuestionInv
<1>1. Init => AllInv
  BY LockInit, ScreenInit, NotesInit, QuestionInit
<1>2. AllInv /\ [Next]_vars => AllInv'
  BY LockStep, ScreenStep, NotesStep, QuestionStep
<1>3. AllInv /\ [Next]_vars =>
        [\A i \in DOMAIN notes : stage' = stage /\ Destroyed(i) =>
            \E t \in Transports : ApprovedBy(t) /\ (Shown(t, i) \/ reply[t].early)]_vars
  BY StepActsAsShown DEF OnlyShownGoes
<1> QED
  BY <1>1, <1>2, <1>3, PTL DEF Spec, ActsAsShown

-----------------------------------------------------------------------------
(***************************************************************************)
(* The note disclosed is the one whose card is up.  While the owner may    *)
(* browse no answer is waiting to be acted on, unless an outcome card came *)
(* down early; so the places of the notes stay, and browse_index names the *)
(* same note at the tap, at the drawing and at the chord.                  *)
(***************************************************************************)
Owners == {"loop", "turn", "draw"}

PlaceInv ==
    /\ overrun \in BOOLEAN
    /\ ui.at = "off" => ui.selected = Nil /\ ui.mode = "idle"
    /\ ui.at = "draw" => ui.mode = "browse"
    /\ ~overrun /\ ui.at # "hold" => NoReplies(Transports)
    /\ ~overrun /\ ui.at \in Owners /\ ui.selected # Nil =>
          ui.index \in DOMAIN notes /\ notes[ui.index].id = ui.selected
    /\ ui.at \in {"loop", "turn"} /\ ui.mode = "qr" => ui.qr = ui.selected
    /\ ~overrun /\ ui.at \in {"loop", "turn"} /\ ui.mode = "browse" /\ ui.selected # Nil =>
          ui.card = ui.selected

LEMMA PlaceInit == Init => PlaceInv
<1> SUFFICES ASSUME Init PROVE PlaceInv
  OBVIOUS
<1>1. ui.at = "off" /\ ui.selected = Nil /\ ui.mode = "idle" /\ overrun = FALSE
  BY DEF Init
<1>2. NoReplies(Transports)
  BY DEF Init, NoReplies
<1> QED
  BY <1>1, <1>2 DEF PlaceInv, Owners

LEMMA UiKeepsPlace ==
    UiShape /\ NotesInv /\ DOMAIN reply = Transports /\ PlaceInv /\ UiTask => PlaceInv'
<1> SUFFICES ASSUME UiShape, NotesInv, DOMAIN reply = Transports, PlaceInv, UiTask
             PROVE  PlaceInv'
  OBVIOUS
<1>0. notes' = notes
  BY DEF UiTask, Serve, Answer, HoldOver, Turn, Quiet, Tap, TapNothing, Draw, Unveil,
     Dismiss, GoIdle, ChangeUi
<1> USE <1>0 DEF PlaceInv, UiShape, NoReplies, Owners
<1>1. CASE Serve
  BY <1>1 DEF Serve
<1>2. ASSUME NEW a \in {"yes", "no"}, Answer(a) PROVE PlaceInv'
  BY <1>2 DEF Answer
<1>3. CASE HoldOver
  BY <1>3 DEF HoldOver, Resting
<1>4. CASE Tap
  <2>1. PICK i \in DOMAIN notes :
          ui' = [ui EXCEPT !.at = "draw", !.mode = "browse", !.index = i,
                           !.selected = notes[i].id]
    BY <1>4 DEF Tap
  <2>2. ui.at = "turn" /\ UNCHANGED <<reply, overrun>>
    BY <1>4 DEF Tap, Browsing
  <2> QED
    BY <2>1, <2>2
<1>5. CASE TapNothing
  BY <1>5 DEF TapNothing, Browsing
<1>6. CASE Draw
  BY <1>6 DEF Draw
<1>7. CASE Unveil
  <2>1. UNCHANGED <<reply, overrun>> /\ ui.at = "turn"
    BY <1>7 DEF Unveil, Browsing
  <2>2. CASE ui' = [ui EXCEPT !.mode = "qr", !.at = "loop", !.qr = Unveiled]
    BY <2>1, <2>2 DEF Unveiled
  <2>3. CASE ui' = [ui EXCEPT !.mode = "browse", !.at = "draw", !.qr = Nil]
    BY <2>1, <2>3
  <2> QED
    BY <1>7, <2>2, <2>3 DEF Unveil
<1>8. CASE Dismiss
  BY <1>8 DEF Dismiss, Browsing
<1>9. CASE GoIdle
  BY <1>9 DEF GoIdle, Resting, Browsing
<1>10. CASE Turn \/ Quiet
  BY <1>10 DEF Turn, Quiet, Browsing
<1> QED
  BY <1>1, <1>2, <1>3, <1>4, <1>5, <1>6, <1>7, <1>8, <1>9, <1>10 DEF UiTask

LEMMA PlaceStep ==
    ScreenInv /\ NotesInv /\ QuestionInv /\ PlaceInv /\ [Next]_vars => PlaceInv'
<1> SUFFICES ASSUME ScreenInv, NotesInv, QuestionInv, PlaceInv, [Next]_vars PROVE PlaceInv'
  OBVIOUS
<1>1. CASE UiTask
  BY <1>1, UiKeepsPlace DEF ScreenInv, QuestionInv
<1>2. CASE UNCHANGED <<ui, reply, overrun>> /\ \/ notes' = notes
                                               \/ \A i \in DOMAIN notes : i \in DOMAIN notes'
                                                             /\ notes'[i] = notes[i]
  BY <1>2 DEF PlaceInv, NoReplies, Owners
<1>3. ASSUME NEW t \in Transports, Dispatch(t) PROVE PlaceInv'
  <2>1. UNCHANGED <<ui, reply, overrun>>
    BY <1>3 DEF Dispatch
  <2>2. CASE ImportSecret(t)
    <3>1. \A i \in DOMAIN notes : i \in DOMAIN notes' /\ notes'[i] = notes[i]
      BY <2>2 DEF ImportSecret, NotesInv
    <3> QED
      BY <1>2, <2>1, <3>1
  <2> QED
    BY <1>2, <1>3, <2>1, <2>2 DEF Dispatch, ExportSecret, PruneSpent, Refuse, Ask
<1>4. ASSUME NEW t \in Transports, Answered(t) PROVE PlaceInv'
  <2>1. UNCHANGED <<ui, overrun>> /\ reply' = [reply EXCEPT ![t] = NoReply] /\ reply[t] # NoReply
    BY <1>4 DEF Answered
  <2>2. overrun \/ ui.at = "hold"
    BY <2>1 DEF PlaceInv, NoReplies
  <2>3. overrun \in BOOLEAN /\ (ui.at = "off" => ui.selected = Nil /\ ui.mode = "idle")
        /\ (ui.at = "draw" => ui.mode = "browse")
        /\ (ui.at \in {"loop", "turn"} /\ ui.mode = "qr" => ui.qr = ui.selected)
    BY DEF PlaceInv
  <2> QED
    BY <2>1, <2>2, <2>3 DEF PlaceInv, Owners
<1>5. ASSUME NEW t \in Transports,
             (\E c \in Commands : Arrive(t, c)) \/ AcquireCmd(t) \/ Release(t)
      PROVE  PlaceInv'
  BY <1>2, <1>5 DEF Arrive, AcquireCmd, Release
<1>6. CASE StartBle \/ StartSerial
  BY <1>2, <1>6 DEF StartBle, StartSerial, Bringup
<1>7. CASE InitVault
  <2>1. UNCHANGED <<ui, reply, overrun>> /\ ui.at = "off"
    BY <1>7 DEF InitVault, Bringup, ScreenInv, DarkUntilStarted
  <2> QED
    BY <2>1 DEF PlaceInv, NoReplies, Owners
<1>8. CASE StartUi
  <2>1. UNCHANGED <<reply, overrun, notes>> /\ ui' = [ui EXCEPT !.at = "loop"] /\ ui.at = "off"
    BY <1>8 DEF StartUi, Bringup, ScreenInv, DarkUntilStarted
  <2> QED
    BY <2>1 DEF PlaceInv, NoReplies, Owners, ScreenInv, UiShape
<1>9. CASE UNCHANGED vars
  BY <1>2, <1>9 DEF vars
<1> QED
  BY <1>1, <1>3, <1>4, <1>5, <1>6, <1>7, <1>8, <1>9 DEF Next, AppMain

LEMMA StepDisclosesShown ==
    ScreenInv /\ NotesInv /\ PlaceInv /\ [Next]_vars =>
        (ui'.qr \notin {Nil, ui.qr} /\ ~overrun => ui'.qr = ui.card)
<1> SUFFICES ASSUME ScreenInv, NotesInv, PlaceInv, [Next]_vars,
                    ui'.qr \notin {Nil, ui.qr}, ~overrun
             PROVE  ui'.qr = ui.card
  OBVIOUS
<1>1. Unveil
  <2>1. CASE UiTask
    BY <2>1 DEF ScreenInv, UiShape, UiTask, Serve, Answer, HoldOver, Turn, Quiet, Tap,
       TapNothing, Draw, Dismiss, GoIdle, Resting
  <2>2. CASE ui' = ui
    BY <2>2
  <2>3. CASE StartUi
    BY <2>3 DEF StartUi, ScreenInv, UiShape
  <2> QED
    BY <2>1, <2>2, <2>3 DEF Next, AppMain, StartBle, InitVault, StartSerial, Arrive,
       AcquireCmd, Dispatch, Answered, Release, vars
<1>2. /\ ui.at = "turn" /\ ui.mode \in {"browse", "qr"}
      /\ ui'.qr = ui.selected /\ ui.selected # Nil
  BY <1>1 DEF Unveil, Unveiled, Browsing, ScreenInv, UiShape
<1> QED
  BY <1>2 DEF PlaceInv

\* The chord brings up the secret of the note whose card the owner was looking
\* at, as long as outcome cards outlast the commands they are about.
THEOREM DisclosedAsShown == Spec => DisclosedIsShown
<1> DEFINE AllInv == LockInv /\ ScreenInv /\ NotesInv /\ QuestionInv /\ PlaceInv
<1>1. Init => AllInv
  BY LockInit, ScreenInit, NotesInit, QuestionInit, PlaceInit
<1>2. AllInv /\ [Next]_vars => AllInv'
  BY LockStep, ScreenStep, NotesStep, QuestionStep, PlaceStep
<1>3. AllInv /\ [Next]_vars =>
        [ui'.qr \notin {Nil, ui.qr} /\ ~overrun => ui'.qr = ui.card]_vars
  BY StepDisclosesShown
<1> QED
  BY <1>1, <1>2, <1>3, PTL DEF Spec, DisclosedIsShown

-----------------------------------------------------------------------------
(***************************************************************************)
(* The device implements Custodian.  The command in hand is that of the    *)
(* holder of cmd_lock, and while it waits its one question is in the       *)
(* request queue, on the screen or in its response queue.                  *)
(***************************************************************************)
CustodyInv ==
    /\ cmdLock \in Transports \cup {Nil}
    /\ cmdLock # Nil => task[cmdLock].at \in {"vault", "wait", "release"}
    /\ \A t \in Transports :
          /\ task[t].at \in {"lock", "vault", "wait"} => task[t].cmd \in Commands
          /\ task[t].at = "wait" => task[t].cmd # Import
          /\ task[t].at = "release" => task[t].cmd = Nil
          /\ reply[t].answer \in {"none", "yes", "no"}

LEMMA CustodyInit == Init => CustodyInv
BY DEF Init, CustodyInv, NoReply

LEMMA TransportKeepsCustody ==
    ASSUME LockInv, DOMAIN reply = Transports, CustodyInv, NEW t \in Transports,
           \/ \E c \in Commands : Arrive(t, c)
           \/ AcquireCmd(t) \/ Dispatch(t) \/ Answered(t) \/ Release(t)
    PROVE  CustodyInv'
<1> USE DEF LockInv, TaskShape, CustodyInv
<1>0. Nil \notin Transports
  BY DeviceAssumption DEF Transports
<1>1. ASSUME NEW c \in Commands, Arrive(t, c) PROVE CustodyInv'
  BY <1>1 DEF Arrive, locks
<1>2. ASSUME AcquireCmd(t) PROVE CustodyInv'
  BY <1>2 DEF AcquireCmd, Goto
<1>3. ASSUME Dispatch(t) PROVE CustodyInv'
  <2>1. task[t].at = "vault" /\ UNCHANGED <<cmdLock, reply>> /\ cmdLock = t
    BY <1>3 DEF Dispatch, ImportSecret, ExportSecret, PruneSpent, Refuse, Ask, locks,
       SourceIsCaller
  <2>2. CASE Ask(t) /\ task[t].cmd # Import
    BY <2>1, <2>2 DEF Ask, Goto
  <2>3. CASE Finish(t)
    BY <2>1, <2>3 DEF Finish
  <2>4. Import.do # "export" /\ Import # Prune
    BY DEF Import, Prune
  <2> QED
    BY <1>3, <2>2, <2>3, <2>4 DEF Dispatch, ImportSecret, ExportSecret, PruneSpent, Refuse
<1>4. ASSUME Answered(t) PROVE CustodyInv'
  BY <1>4 DEF Answered, Finish, NoReply
<1>5. ASSUME Release(t) PROVE CustodyInv'
  BY <1>5 DEF Release
<1> QED
  BY <1>1, <1>2, <1>3, <1>4, <1>5

LEMMA CustodyStep ==
    LockInv /\ QuestionInv /\ CustodyInv /\ [Next]_vars => CustodyInv'
<1> SUFFICES ASSUME LockInv, QuestionInv, CustodyInv, [Next]_vars PROVE CustodyInv'
  OBVIOUS
<1>1. CASE UNCHANGED <<task, cmdLock, reply>>
  BY <1>1 DEF CustodyInv
<1>2. ASSUME NEW a \in {"yes", "no"}, Answer(a) PROVE CustodyInv'
  BY <1>2 DEF Answer, ChangeUi, locks, CustodyInv, QuestionInv
<1>3. CASE UiTask
  BY <1>1, <1>2, <1>3 DEF UiTask, Serve, HoldOver, Turn, Quiet, Tap, TapNothing, Draw,
     Unveil, Dismiss, GoIdle, ChangeUi, locks
<1>4. CASE AppMain
  BY <1>1, <1>4 DEF AppMain, StartBle, InitVault, StartSerial, StartUi, Bringup, locks
<1>5. CASE UNCHANGED vars
  BY <1>1, <1>5 DEF vars, locks
<1> QED
  BY <1>3, <1>4, <1>5, TransportKeepsCustody DEF Next, QuestionInv

\* What the mapping makes of a task that holds cmd_lock.
LEMMA InHand ==
    ASSUME LockInv, CustodyInv, NEW t \in Transports,
           task[t].at \in {"vault", "wait", "release"}
    PROVE  /\ cmdLock = t /\ cmdLock # Nil /\ CmdInHand = task[t].cmd
           /\ task[t].at = "vault" => Phase = "taken" /\ Card = Nil
           /\ task[t].at = "release" => Phase = "done" /\ Card = Nil /\ CmdInHand = Nil
<1>1. cmdLock = t /\ cmdLock # Nil
  BY DeviceAssumption DEF LockInv, SourceIsCaller, Transports
<1> QED
  BY <1>1 DEF CmdInHand, Phase, Card, CustodyInv

CardOf(q) == IF q.early THEN Nil ELSE [note |-> q.card, count |-> q.count]

LEMMA Waiting ==
    ASSUME LockInv, QuestionInv, CustodyInv, NEW t \in Transports, task[t].at = "wait"
    PROVE  /\ Card = CardOf(InFlight(t)) /\ UpToDate(InFlight(t), t)
           /\ \/ Queued(t) /\ Phase = "asked" /\ InFlight(t) = Head(requests)
              \/ OnScreen(t) /\ Phase = "asked" /\ InFlight(t) = ui.request
              \/ /\ Replied(t) /\ Phase = reply[t].answer /\ InFlight(t) = reply[t]
                 /\ reply[t].answer \in {"yes", "no"}
<1>1. cmdLock = t /\ cmdLock # Nil
  BY InHand
<1>2. Phase = IF reply[t].answer = "none" THEN "asked" ELSE reply[t].answer
  BY <1>1 DEF Phase
<1>3. Queued(t) \/ OnScreen(t) \/ Replied(t)
  <2>1. \A u \in Transports \ {t} : task[u].at # "wait"
    BY OneWaits
  <2> QED
    BY <2>1 DEF QuestionInv, OneQuestion
<1>4. reply[t].answer \in {"none", "yes", "no"}
  BY DEF CustodyInv
<1>5. Card = CardOf(InFlight(t))
  <2>1. Phase \notin {"idle", "taken", "done"}
    BY <1>2, <1>4
  <2> QED
    BY <1>1, <2>1 DEF Card, CardOf
<1>6. CASE Queued(t)
  <2>1. requests # <<>>
    <3>1. <<Head(requests)>> # <<>>
      OBVIOUS
    <3> QED
      BY <1>6, <3>1 DEF Queued
  <2>2. InFlight(t) = Head(requests) /\ UpToDate(Head(requests), t)
    BY <1>6, <2>1 DEF Queued, InFlight
  <2>3. Phase = "asked"
    BY <1>2, <1>6 DEF Queued, NoReplies, NoReply
  <2> QED
    BY <1>5, <1>6, <2>2, <2>3
<1>7. CASE OnScreen(t)
  <2>1. InFlight(t) = ui.request /\ UpToDate(ui.request, t)
    BY <1>7 DEF OnScreen, InFlight, Prompting
  <2>2. Phase = "asked"
    BY <1>2, <1>7 DEF OnScreen, NoReplies, NoReply
  <2> QED
    BY <1>5, <1>7, <2>1, <2>2
<1>8. CASE Replied(t)
  BY <1>2, <1>4, <1>5, <1>8 DEF Replied, InFlight, Prompting
<1> QED
  BY <1>3, <1>6, <1>7, <1>8

\* The notes as a set: as many as their places, one for each id.
LEMMA NotesAreDistinct ==
    ASSUME NotesInv, NEW S \in SUBSET DOMAIN notes
    PROVE  Cardinality({notes[i] : i \in S}) = Cardinality(S)
<1> DEFINE T == {notes[i] : i \in S}
           f == [i \in S |-> notes[i]]
<1>1. IsFiniteSet(S)
  <2>1. Len(notes) \in Nat /\ S \in SUBSET (1 .. Len(notes))
    BY DEF NotesInv
  <2>2. IsFiniteSet(1 .. Len(notes))
    BY <2>1, FS_Interval
  <2> QED
    BY <2>1, <2>2, FS_Subset
<1>2. f \in [S -> T]
  OBVIOUS
<1>3. \A i, j \in S : notes[i] = notes[j] => i = j
  BY DEF NotesInv, Distinct
<1>4. f \in Injection(S, T)
  BY <1>2, <1>3 DEF Injection, IsInjective
<1>5. f \in Surjection(S, T)
  BY <1>2 DEF Surjection
<1>6. ExistsBijection(S, T)
  BY <1>4, <1>5 DEF Bijection, ExistsBijection
<1> QED
  BY <1>1, <1>6, FS_Bijection

LEMMA NamedIsOne ==
    ASSUME NotesInv, NEW c
    PROVE  /\ \A i \in DOMAIN notes : notes[i].id = c.id =>
                 C!Named(c) = {notes[i]} /\ Lookup(c.id) = notes[i] /\ HasNote(c.id)
           /\ ~HasNote(c.id) => C!Named(c) = {}
<1>1. ASSUME NEW i \in DOMAIN notes, notes[i].id = c.id
      PROVE  C!Named(c) = {notes[i]} /\ Lookup(c.id) = notes[i] /\ HasNote(c.id)
  <2>1. \A j \in DOMAIN notes : notes[j].id = c.id => j = i
    BY <1>1 DEF NotesInv, Distinct
  <2>2. Lookup(notes[i].id) = notes[i]
    BY LookupFinds DEF NotesInv
  <2> QED
    BY <1>1, <2>1, <2>2 DEF C!Named, HasNote, HeldNotes
<1>2. ~HasNote(c.id) => C!Named(c) = {}
  BY DEF C!Named, HasNote, HeldNotes
<1> QED
  BY <1>1, <1>2

\* Which fields commands have.
LEMMA CommandKinds ==
    /\ Import.do = "import" /\ Prune.do = "prune"
    /\ \A c \in Command : /\ c # Import => c.do # "import"
                          /\ c.do = "prune" <=> c = Prune
                          /\ c.do \in {"import", "prune", "export", "mark_spent", "delete"}
BY DEF Command, Import, Prune

\* The card the hooks fill in says what the command is about.
LEMMA SheetIsQuestion ==
    ASSUME NotesInv, NEW t \in Transports, task[t].cmd \in Command
    PROVE  C!Sheet(task[t].cmd) = [note |-> Question(t).card, count |-> Question(t).count]
<1> SUFFICES ASSUME NEW c \in Command, c = task[t].cmd
             PROVE  C!Sheet(c) = [note |-> Question(t).card, count |-> Question(t).count]
  OBVIOUS
<1>1. CASE c = Prune
  <2>1. {notes[i] : i \in Spent} = C!Spent
    BY DEF Spent, C!Spent, HeldNotes
  <2>2. Cardinality({notes[i] : i \in Spent}) = Cardinality(Spent)
    BY NotesAreDistinct DEF Spent
  <2>3. C!Sheet(c) = [note |-> Nil, count |-> Cardinality(C!Spent)]
    BY <1>1, CommandKinds DEF C!Sheet, C!Cardinality, Cardinality
  <2>4. Question(t).card = Nil /\ Question(t).count = Cardinality(Spent)
    BY <1>1 DEF Question
  <2> QED
    BY <2>1, <2>2, <2>3, <2>4
<1>2. CASE c # Prune
  <2>1. C!Sheet(c) = [note |-> IF C!Named(c) = {} THEN Nil
                               ELSE CHOOSE n \in C!Named(c) : TRUE, count |-> 0]
    BY <1>2, CommandKinds DEF C!Sheet
  <2>2. (IF C!Named(c) = {} THEN Nil ELSE CHOOSE n \in C!Named(c) : TRUE) = Lookup(c.id)
    <3>1. CASE HasNote(c.id)
      <4>1. PICK i \in DOMAIN notes : notes[i].id = c.id
        BY <3>1 DEF HasNote
      <4>2. C!Named(c) = {notes[i]} /\ Lookup(c.id) = notes[i]
        BY <4>1, NamedIsOne
      <4> QED
        BY <4>2
    <3>2. CASE ~HasNote(c.id)
      BY <3>2, NamedIsOne DEF Lookup
    <3> QED
      BY <3>1, <3>2
  <2>3. Question(t).card = Lookup(c.id) /\ Question(t).count = 0
    BY <1>2 DEF Question
  <2> QED
    BY <2>1, <2>2, <2>3
<1> QED
  BY <1>1, <1>2

\* What an approved command makes of the notes.
LEMMA ActIsOutcome ==
    ASSUME NotesInv, NEW c \in Command, c # Import, Act(c)
    PROVE  HeldNotes' = C!Outcome(c)
<1> USE DEF NotesInv
<1>0. \A i \in DOMAIN notes : notes[i].state \in {"confirmed", "spent"}
  <2>1. \A i \in DOMAIN notes : notes[i] \in Note
    OBVIOUS
  <2> QED
    BY <2>1 DEF Note, NoteState
<1>1. ASSUME NEW S \in SUBSET DOMAIN notes, notes' = Kept(S)
      PROVE  HeldNotes' = {notes[i] : i \in S}
  BY <1>1, KeptKeeps DEF HeldNotes
<1>2. CASE c.do = "mark_spent"
  <2>1. C!Outcome(c) = (HeldNotes \ C!Fresh(c)) \cup
                       {[n EXCEPT !.state = "spent"] : n \in C!Fresh(c)}
    BY <1>2 DEF C!Outcome
  <2>2. CASE InState(c.id, "confirmed")
    <3>1. PICK i \in DOMAIN notes : notes[i].id = c.id
      BY <2>2 DEF InState, HasNote
    <3>2. C!Named(c) = {notes[i]} /\ notes[i].state = "confirmed"
      BY <2>2, <3>1, NamedIsOne DEF InState
    <3>3. C!Fresh(c) = {notes[i]}
      BY <3>2 DEF C!Fresh, C!Spent
    <3>4. notes' = [j \in DOMAIN notes |-> IF notes[j].id = c.id
                                            THEN [notes[j] EXCEPT !.state = "spent"]
                                            ELSE notes[j]]
      BY <1>2, <2>2, CommandKinds DEF Act, MarkSpent
    <3>5. \A j \in DOMAIN notes : notes[j].id = c.id <=> j = i
      BY <3>1 DEF Distinct
    <3>6. HeldNotes' = {[notes[i] EXCEPT !.state = "spent"]} \cup
                       {notes[j] : j \in DOMAIN notes \ {i}}
      BY <3>4, <3>5 DEF HeldNotes
    <3>7. {notes[j] : j \in DOMAIN notes \ {i}} = HeldNotes \ {notes[i]}
      BY DEF HeldNotes, Distinct
    <3> QED
      BY <2>1, <3>3, <3>6, <3>7
  <2>3. CASE ~InState(c.id, "confirmed")
    <3>1. HeldNotes' = HeldNotes
      BY <1>2, <2>3, CommandKinds DEF Act, HeldNotes
    <3>2. C!Fresh(c) = {}
      <4>1. CASE ~HasNote(c.id)
        BY <4>1, NamedIsOne DEF C!Fresh
      <4>2. CASE HasNote(c.id)
        <5>1. PICK i \in DOMAIN notes : notes[i].id = c.id
          BY <4>2 DEF HasNote
        <5>2. C!Named(c) = {notes[i]} /\ notes[i].state = "spent"
          BY <1>0, <2>3, <4>2, <5>1, NamedIsOne DEF InState
        <5> QED
          BY <5>1, <5>2 DEF C!Fresh, C!Spent, HeldNotes
      <4> QED
        BY <4>1, <4>2
    <3> QED
      BY <2>1, <3>1, <3>2
  <2> QED
    BY <2>2, <2>3
<1>3. CASE c.do = "delete"
  <2>1. C!Outcome(c) = HeldNotes \ (C!Named(c) \cap C!Spent)
    BY <1>3 DEF C!Outcome
  <2>2. CASE InState(c.id, "spent")
    <3>1. PICK i \in DOMAIN notes : notes[i].id = c.id
      BY <2>2 DEF InState, HasNote
    <3>2. C!Named(c) = {notes[i]} /\ notes[i].state = "spent"
      BY <2>2, <3>1, NamedIsOne DEF InState
    <3>3. C!Named(c) \cap C!Spent = {notes[i]}
      BY <3>1, <3>2 DEF C!Spent, HeldNotes
    <3>4. {j \in DOMAIN notes : notes[j].id # c.id} = DOMAIN notes \ {i}
      BY <3>1 DEF Distinct
    <3>5. notes' = Kept(DOMAIN notes \ {i})
      BY <1>3, <2>2, <3>4, CommandKinds DEF Act, Delete
    <3>6. HeldNotes' = {notes[j] : j \in DOMAIN notes \ {i}}
      BY <1>1, <3>5
    <3>7. {notes[j] : j \in DOMAIN notes \ {i}} = HeldNotes \ {notes[i]}
      BY DEF HeldNotes, Distinct
    <3> QED
      BY <2>1, <3>3, <3>6, <3>7
  <2>3. CASE ~InState(c.id, "spent")
    <3>1. HeldNotes' = HeldNotes
      BY <1>3, <2>3, CommandKinds DEF Act, HeldNotes
    <3>2. C!Named(c) \cap C!Spent = {}
      <4>1. CASE ~HasNote(c.id)
        BY <4>1, NamedIsOne
      <4>2. CASE HasNote(c.id)
        <5>1. PICK i \in DOMAIN notes : notes[i].id = c.id
          BY <4>2 DEF HasNote
        <5>2. C!Named(c) = {notes[i]} /\ notes[i].state # "spent"
          BY <2>3, <4>2, <5>1, NamedIsOne DEF InState
        <5> QED
          BY <5>2 DEF C!Spent
      <4> QED
        BY <4>1, <4>2
    <3> QED
      BY <2>1, <3>1, <3>2
  <2> QED
    BY <2>2, <2>3
<1>4. CASE c = Prune
  <2>1. C!Outcome(c) = HeldNotes \ C!Spent
    BY <1>4, CommandKinds DEF C!Outcome
  <2>2. notes' = Kept(DOMAIN notes \ Spent)
    BY <1>4, CommandKinds DEF Act, Sweep
  <2>3. HeldNotes' = {notes[i] : i \in DOMAIN notes \ Spent}
    BY <1>1, <2>2
  <2> QED
    BY <2>1, <2>3 DEF HeldNotes, C!Spent, Spent
<1>5. CASE c.do = "export"
  <2>1. C!Outcome(c) = HeldNotes
    BY <1>5 DEF C!Outcome
  <2>2. notes' = notes
    BY <1>5, CommandKinds DEF Act
  <2> QED
    BY <2>1, <2>2 DEF HeldNotes
<1> QED
  BY <1>2, <1>3, <1>4, <1>5, CommandKinds

\* A step that leaves cmd_lock, its holder and the question where they are
\* changes at most the notes, for the custodian.
TalkKept == UNCHANGED <<cmdLock, CmdInHand, Phase, Card>>

LEMMA TalkIsKept ==
    ASSUME UNCHANGED <<cmdLock, requests, reply>>,
           cmdLock # Nil => task'[cmdLock] = task[cmdLock],
           Prompting' = Prompting, Prompting => ui'.request = ui.request
    PROVE  TalkKept
<1>1. UNCHANGED <<CmdInHand, Phase>>
  BY DEF CmdInHand, Phase
<1>2. InFlight(cmdLock)' = InFlight(cmdLock)
  BY DEF InFlight, Prompting
<1> QED
  BY <1>1, <1>2 DEF TalkKept, Card

LEMMA NothingForTheCustodian ==
    ASSUME TalkKept, notes' = notes,
           stage' = stage \/ {stage, stage'} \subseteq {"boot", "ble"}
                          \/ {stage, stage'} \cap {"boot", "ble"} = {}
    PROVE  UNCHANGED C!vars
<1>1. (stage \notin {"boot", "ble"})' <=> (stage \notin {"boot", "ble"})
  OBVIOUS
<1>2. HeldNotes' = HeldNotes
  BY DEF HeldNotes
<1> QED
  BY <1>1, <1>2 DEF C!vars, TalkKept

\* The mapping after a step.
LEMMA InHandNext ==
    /\ \A t \in Transports : cmdLock' = t =>
          /\ CmdInHand' = task'[t].cmd
          /\ task'[t].at = "vault" => Phase' = "taken" /\ Card' = Nil
          /\ task'[t].at = "release" => Phase' = "done" /\ Card' = Nil
    /\ cmdLock' = Nil => CmdInHand' = Nil /\ Phase' = "idle" /\ Card' = Nil
BY DeviceAssumption DEF Transports, CmdInHand, Phase, Card

LEMMA ArriveIsNothing ==
    ASSUME LockInv, CustodyInv, NEW t \in Transports, NEW c, Arrive(t, c)
    PROVE  UNCHANGED C!vars
<1>1. task[t].at = "idle" /\ \A u \in Transports \ {t} : task'[u] = task[u]
  BY EntryKeepsShape DEF Arrive, LockInv
<1>2. UNCHANGED <<stage, notes, cmdLock, requests, reply, ui>>
  BY DEF Arrive, locks
<1>3. cmdLock # Nil => task'[cmdLock] = task[cmdLock]
  BY <1>1 DEF CustodyInv
<1>4. TalkKept
  BY <1>2, <1>3, TalkIsKept DEF Prompting
<1> QED
  BY <1>2, <1>4, NothingForTheCustodian

LEMMA AcquireIsTake ==
    ASSUME LockInv, CustodyInv, NEW t \in Transports, AcquireCmd(t)
    PROVE  C!Take(t)
<1>1. /\ task[t].at = "lock" /\ cmdLock = Nil /\ cmdLock' = t
      /\ UNCHANGED <<stage, notes>>
  BY DEF AcquireCmd
<1>2. task'[t].at = "vault" /\ task'[t].cmd = task[t].cmd
  BY DEF AcquireCmd, Goto, LockInv, TaskShape
<1>3. Phase = "idle" /\ Card = Nil
  BY <1>1 DEF Phase, Card
<1>4. Phase' = "taken" /\ Card' = Nil /\ CmdInHand' = task[t].cmd
  BY <1>1, <1>2, InHandNext
<1>5. task[t].cmd \in Commands
  BY <1>1 DEF CustodyInv
<1>6. HeldNotes' = HeldNotes
  BY <1>1 DEF HeldNotes
<1> QED
  BY <1>1, <1>3, <1>4, <1>5, <1>6 DEF C!Take

\* A command comes to its end.
LEMMA FinishIsDone ==
    ASSUME LockInv, NEW t \in Transports, Finish(t), cmdLock = t,
           UNCHANGED <<stage, cmdLock>>
    PROVE  C!Done
<1>1. task'[t].at = "release" /\ task'[t].cmd = Nil
  BY DEF Finish, LockInv, TaskShape
<1> QED
  BY <1>1, InHandNext DEF C!Done

LEMMA DispatchIsStep ==
    ASSUME LockInv, NotesInv, QuestionInv, CustodyInv, NEW t \in Transports, Dispatch(t)
    PROVE  C!Refuse \/ C!Import \/ C!Ask
<1>1. task[t].at = "vault" /\ UNCHANGED <<stage, reply, ui>>
  BY DEF Dispatch
<1>2. /\ cmdLock = t /\ cmdLock # Nil /\ CmdInHand = task[t].cmd
      /\ Phase = "taken" /\ Card = Nil
  BY <1>1, InHand
<1>3. task[t].cmd \in Commands /\ task[t].cmd \in Command
  BY <1>1, DeviceAssumption DEF CustodyInv
<1>4. CASE Refuse(t)
  <2>1. Finish(t) /\ UNCHANGED <<cmdLock, notes>>
    BY <1>4 DEF Refuse
  <2>2. C!Done /\ HeldNotes' = HeldNotes
    BY <1>1, <1>2, <2>1, FinishIsDone DEF HeldNotes
  <2> QED
    BY <1>2, <2>2 DEF C!Refuse
<1>5. CASE task[t].cmd = Import /\ ImportSecret(t)
  <2>1. C!Done
    BY <1>1, <1>2, <1>5, FinishIsDone DEF ImportSecret
  <2>2. PICK id \in NoteIds \ used :
          notes' = Append(notes, [id |-> id, state |-> "confirmed"])
    BY <1>5 DEF ImportSecret
  <2>3. \A n \in HeldNotes : n.id # id
    BY <2>2 DEF NotesInv, HeldNotes
  <2>4. HeldNotes' = HeldNotes \cup {[id |-> id, state |-> "confirmed"]}
    BY <2>2 DEF NotesInv, HeldNotes
  <2>5. CmdInHand.do = "import"
    BY <1>2, <1>5, CommandKinds
  <2> QED
    BY <1>2, <2>1, <2>2, <2>3, <2>4, <2>5 DEF C!Import
<1>6. CASE task[t].cmd # Import /\ Ask(t)
  <2>1. requests = <<>> /\ reply[t] = NoReply
    BY <1>1, <1>2, OneWaits DEF QuestionInv, OneQuestion, NothingAsked, NoReplies
  <2>2. /\ requests' = <<Question(t)>> /\ UNCHANGED <<cmdLock, notes>>
        /\ task'[t].at = "wait" /\ task'[t].cmd = task[t].cmd
    BY <1>6, <2>1 DEF Ask, Goto, locks, LockInv, TaskShape
  <2>3. CmdInHand' = CmdInHand /\ Phase' = "asked"
    BY <1>1, <1>2, <2>1, <2>2 DEF CmdInHand, Phase, NoReply
  <2>4. InFlight(cmdLock)' = Question(t)
    <3>1. <<Question(t)>> # <<>> /\ Head(<<Question(t)>>) = Question(t)
      OBVIOUS
    <3> QED
      BY <2>2, <3>1 DEF InFlight
  <2>5. Question(t).early <=> stage \in {"boot", "ble"}
    BY <1>1 DEF Question, QuestionInv
  <2>6. C!Sheet(CmdInHand) = [note |-> Question(t).card, count |-> Question(t).count]
    BY <1>2, <1>3, SheetIsQuestion
  <2>7. Card' = IF Question(t).early THEN Nil
                ELSE [note |-> Question(t).card, count |-> Question(t).count]
    BY <2>3, <2>4 DEF Card
  <2>8. Card' = IF stage \notin {"boot", "ble"} THEN C!Sheet(CmdInHand) ELSE Nil
    BY <2>5, <2>6, <2>7
  <2>9. CmdInHand.do # "import"
    BY <1>2, <1>3, <1>6, CommandKinds
  <2>10. HeldNotes' = HeldNotes
    BY <2>2 DEF HeldNotes
  <2> QED
    BY <1>1, <1>2, <2>2, <2>3, <2>8, <2>9, <2>10 DEF C!Ask
<1>7. \/ Refuse(t)
      \/ task[t].cmd = Import /\ ImportSecret(t)
      \/ task[t].cmd # Import /\ Ask(t)
  BY CommandKinds DEF Dispatch, ExportSecret, PruneSpent
<1> QED
  BY <1>4, <1>5, <1>6, <1>7

LEMMA AnsweredIsStep ==
    ASSUME LockInv, NotesInv, QuestionInv, CustodyInv, NEW t \in Transports, Answered(t)
    PROVE  C!Obey \/ C!Desist
<1>1. /\ task[t].at = "wait" /\ reply[t] # NoReply
      /\ UNCHANGED <<stage, cmdLock>> /\ Finish(t)
  BY DEF Answered
<1>2. cmdLock = t /\ CmdInHand = task[t].cmd
  BY <1>1, InHand
<1>3. /\ Phase = reply[t].answer /\ Phase \in {"yes", "no"}
      /\ Card = CardOf(reply[t]) /\ UpToDate(reply[t], t)
  <2>1. ~NoReplies(Transports)
    BY <1>1 DEF NoReplies
  <2>2. ~Queued(t) /\ ~OnScreen(t)
    BY <2>1 DEF Queued, OnScreen
  <2> QED
    BY <1>1, <2>2, Waiting
<1>4. C!Done
  BY <1>1, <1>2, FinishIsDone
<1>5. CASE Phase = "no"
  <2>1. HeldNotes' = HeldNotes
    BY <1>3, <1>5 DEF Answered, HeldNotes
  <2> QED
    BY <1>4, <1>5, <2>1 DEF C!Desist
<1>6. CASE Phase = "yes"
  <2>1. task[t].cmd \in Command /\ task[t].cmd # Import
    BY <1>1, DeviceAssumption DEF CustodyInv
  <2>2. Act(task[t].cmd)
    BY <1>3, <1>6 DEF Answered
  <2>3. HeldNotes' = C!Outcome(CmdInHand)
    BY <1>2, <2>1, <2>2, ActIsOutcome
  <2>4. C!Sheet(CmdInHand) = [note |-> Question(t).card, count |-> Question(t).count]
    BY <1>2, <2>1, SheetIsQuestion
  <2>5. Card \in {Nil, C!Sheet(CmdInHand)}
    BY <1>3, <2>4 DEF CardOf, UpToDate
  <2> QED
    BY <1>4, <1>6, <2>3, <2>5 DEF C!Obey
<1> QED
  BY <1>3, <1>5, <1>6

LEMMA ReleaseIsAnswer ==
    ASSUME LockInv, CustodyInv, NEW t \in Transports, Release(t)
    PROVE  C!Answer
<1>1. /\ task[t].at = "release" /\ cmdLock' = Nil
      /\ UNCHANGED <<stage, notes>>
  BY DEF Release
<1>2. Phase = "done" /\ Card = Nil /\ CmdInHand = Nil
  BY <1>1, InHand
<1>3. Phase' = "idle" /\ Card' = Nil /\ CmdInHand' = Nil
  BY <1>1, InHandNext
<1>4. HeldNotes' = HeldNotes
  BY <1>1 DEF HeldNotes
<1> QED
  BY <1>1, <1>2, <1>3, <1>4 DEF C!Answer

LEMMA ServeIsNothing ==
    ASSUME LockInv, ScreenInv, QuestionInv, CustodyInv, Serve
    PROVE  UNCHANGED C!vars
<1>1. /\ requests # <<>> /\ UNCHANGED <<stage, notes, cmdLock, task, reply>>
      /\ ui'.at = "prompt" /\ ui'.request = Head(requests)
  BY DEF Serve, ChangeUi, locks, ScreenInv, UiShape
<1>2. requests' = <<>>
  <2>1. requests = <<Head(requests)>>
    BY <1>1 DEF QuestionInv, OneQuestion, NothingAsked, Queued, OnScreen, Replied
  <2>2. requests' = Tail(requests)
    BY DEF Serve
  <2> QED
    BY <2>1, <2>2
<1>3. UNCHANGED <<CmdInHand, Phase>>
  BY <1>1 DEF CmdInHand, Phase
<1>4. InFlight(cmdLock)' = InFlight(cmdLock)
  BY <1>1, <1>2 DEF InFlight
<1>5. TalkKept
  BY <1>1, <1>3, <1>4 DEF TalkKept, Card
<1> QED
  BY <1>1, <1>5, NothingForTheCustodian

LEMMA AnswerIsDecide ==
    ASSUME LockInv, ScreenInv, QuestionInv, CustodyInv, NEW a \in {"yes", "no"}, Answer(a)
    PROVE  C!Decide
<1>1. Prompting /\ ui'.at = "hold" /\ UNCHANGED <<stage, notes, cmdLock, task, requests>>
  BY DEF Answer, ChangeUi, locks, Prompting, ScreenInv, UiShape
<1>2. PICK t \in Transports : task[t].at = "wait" /\ OnScreen(t)
  BY <1>1 DEF QuestionInv, OneQuestion, NothingAsked, Queued, Replied
<1>3. cmdLock = t /\ cmdLock # Nil /\ CmdInHand = task[t].cmd
  BY <1>2, InHand
<1>4. requests = <<>> /\ Phase = "asked" /\ InFlight(t) = ui.request /\ Card = CardOf(ui.request)
  <2>1. requests = <<>> /\ ~Queued(t) /\ ~Replied(t)
    BY <1>2 DEF OnScreen, Queued, Replied
  <2> QED
    BY <1>2, <2>1, Waiting
<1>5. /\ reply'[t].answer = a /\ reply'[t].card = ui.request.card
      /\ reply'[t].count = ui.request.count /\ reply'[t].early = ui.request.early
  BY <1>2 DEF Answer, OnScreen, QuestionInv
<1>6. Phase' = a /\ CmdInHand' = CmdInHand
  BY <1>1, <1>2, <1>3, <1>5 DEF Phase, CmdInHand
<1>7. InFlight(cmdLock)' = reply'[t]
  BY <1>1, <1>3, <1>4 DEF InFlight
<1>8. Card' = Card
  BY <1>4, <1>5, <1>6, <1>7 DEF Card, CardOf
<1>9. HeldNotes' = HeldNotes
  BY <1>1 DEF HeldNotes
<1> QED
  BY <1>1, <1>4, <1>6, <1>8, <1>9 DEF C!Decide

LEMMA LoadIsLoad ==
    ASSUME InitVault
    PROVE  C!Load
<1>1. /\ stage = "ble" /\ stage' = "vault" /\ notes' = Stored
      /\ UNCHANGED <<cmdLock, task, requests, reply, ui>>
  BY DEF InitVault, Bringup, locks
<1>2. TalkKept
  BY <1>1, TalkIsKept DEF Prompting
<1>3. HeldNotes' = {Stored[i] : i \in DOMAIN Stored}
  BY <1>1 DEF HeldNotes
<1> QED
  BY <1>1, <1>2, <1>3 DEF C!Load, TalkKept

LEMMA CustodianInit == Init => C!Init
BY DEF Init, C!Init, HeldNotes, CmdInHand, Phase, Card

LEMMA CustodianStep ==
    LockInv /\ ScreenInv /\ NotesInv /\ QuestionInv /\ CustodyInv /\ [Next]_vars =>
        [C!Next]_(C!vars)
<1> SUFFICES ASSUME LockInv, ScreenInv, NotesInv, QuestionInv, CustodyInv, [Next]_vars
             PROVE  C!Next \/ UNCHANGED C!vars
  OBVIOUS
<1>1. ASSUME NEW t \in Transports, NEW c \in Commands, Arrive(t, c) PROVE UNCHANGED C!vars
  BY <1>1, ArriveIsNothing
<1>2. ASSUME NEW t \in Transports, AcquireCmd(t) PROVE C!Next
  BY <1>2, AcquireIsTake DEF C!Next
<1>3. ASSUME NEW t \in Transports, Dispatch(t) PROVE C!Next
  BY <1>3, DispatchIsStep DEF C!Next
<1>4. ASSUME NEW t \in Transports, Answered(t) PROVE C!Next
  BY <1>4, AnsweredIsStep DEF C!Next
<1>5. ASSUME NEW t \in Transports, Release(t) PROVE C!Next
  BY <1>5, ReleaseIsAnswer DEF C!Next
<1>6. CASE Serve
  BY <1>6, ServeIsNothing
<1>7. ASSUME NEW a \in {"yes", "no"}, Answer(a) PROVE C!Next
  BY <1>7, AnswerIsDecide DEF C!Next
<1>8. CASE HoldOver \/ Turn \/ Quiet \/ Tap \/ TapNothing \/ Draw \/ Unveil \/ Dismiss \/ GoIdle
  <2>1. UNCHANGED <<stage, notes, cmdLock, task, requests, reply>>
    BY <1>8 DEF HoldOver, Turn, Quiet, Tap, TapNothing, Draw, Unveil, Dismiss, GoIdle,
       ChangeUi, locks
  <2>2. ~Prompting
    BY <1>8 DEF HoldOver, Turn, Quiet, Tap, TapNothing, Draw, Unveil, Dismiss, GoIdle,
       Browsing, Prompting
  <2>3. ~Prompting'
    BY <1>8 DEF HoldOver, Turn, Quiet, Tap, TapNothing, Draw, Unveil, Dismiss, GoIdle,
       Resting, ScreenInv, UiShape, Prompting
  <2>4. TalkKept
    BY <2>1, <2>2, <2>3, TalkIsKept DEF Prompting
  <2> QED
    BY <2>1, <2>4, NothingForTheCustodian
<1>9. CASE StartBle \/ StartSerial \/ StartUi
  <2>1. /\ UNCHANGED <<notes, cmdLock, task, requests, reply>>
        /\ \/ {stage, stage'} \subseteq {"boot", "ble"}
           \/ {stage, stage'} \cap {"boot", "ble"} = {}
    BY <1>9 DEF StartBle, StartSerial, StartUi, Bringup, locks
  <2>2. Prompting' = Prompting /\ (Prompting => ui'.request = ui.request)
    <3>1. CASE ui' = ui
      BY <3>1 DEF Prompting
    <3>2. CASE StartUi
      BY <3>2 DEF StartUi, Bringup, Prompting, ScreenInv, DarkUntilStarted, UiShape
    <3> QED
      BY <1>9, <3>1, <3>2 DEF StartBle, StartSerial
  <2>3. TalkKept
    BY <2>1, <2>2, TalkIsKept
  <2> QED
    BY <2>1, <2>3, NothingForTheCustodian
<1>10. CASE InitVault
  BY <1>10, LoadIsLoad DEF C!Next
<1>11. CASE UNCHANGED vars
  <2>1. UNCHANGED <<stage, notes, cmdLock, task, requests, reply, ui>>
    BY <1>11 DEF vars, locks
  <2>2. TalkKept
    BY <2>1, TalkIsKept DEF Prompting
  <2> QED
    BY <2>1, <2>2, NothingForTheCustodian
<1> QED
  BY <1>1, <1>2, <1>3, <1>4, <1>5, <1>6, <1>7, <1>8, <1>9, <1>10, <1>11 DEF Next, UiTask,
     AppMain

\* The transports, the locks, the queues and the screen together are one
\* custodian, who takes one command at a time, puts it to the owner once, and
\* obeys a yes while what was on the card is still so.
THEOREM ActsAsCustodian == Spec => ImplementsCustodian
<1> DEFINE AllInv == LockInv /\ ScreenInv /\ NotesInv /\ QuestionInv /\ CustodyInv
<1>1. Init => AllInv
  BY LockInit, ScreenInit, NotesInit, QuestionInit, CustodyInit
<1>2. AllInv /\ [Next]_vars => AllInv'
  BY LockStep, ScreenStep, NotesStep, QuestionStep, CustodyStep
<1>3. AllInv /\ [Next]_vars => [C!Next]_(C!vars)
  BY CustodianStep
<1> QED
  BY <1>1, <1>2, <1>3, CustodianInit, PTL DEF Spec, ImplementsCustodian, C!Spec

-----------------------------------------------------------------------------
(***************************************************************************)
(* Types: what the invariants above leave out.                             *)
(***************************************************************************)
PlainTypes == /\ stage \in Stages /\ overrun \in BOOLEAN
              /\ vaultLock \in Transports \cup {Nil} /\ source \in Transports \cup {"local"}
HistoryTypes == used \subseteq NoteIds /\ acked \subseteq used
TaskTypes == task \in [Transports -> [at: {"idle", "lock", "vault", "wait", "release"},
                                      cmd: Command \cup {Nil}]]
TalkTypes == requests \in Seq(Request) /\ reply \in [Transports -> Reply]
UiTypes == ui \in Ui /\ (ui.at = "prompt" => ui.request \in Request)

LEMMA PlainStep == PlainTypes /\ [Next]_vars => PlainTypes'
<1> SUFFICES ASSUME PlainTypes, [Next]_vars PROVE PlainTypes'
  OBVIOUS
<1> USE DEF PlainTypes
<1>1. CASE UNCHANGED <<stage, overrun, vaultLock, source>>
  BY <1>1
<1>2. ASSUME NEW t \in Transports,
             \/ \E c \in Commands : Arrive(t, c)
             \/ AcquireCmd(t) \/ Dispatch(t) \/ Answered(t) \/ Release(t)
      PROVE  PlainTypes'
  BY <1>2 DEF Arrive, AcquireCmd, Dispatch, ImportSecret, ExportSecret, PruneSpent, Refuse, Ask,
              Answered, Release, locks
<1>3. CASE HoldOver
  BY <1>3 DEF HoldOver, ChangeUi, locks
<1>4. CASE UiTask /\ ~HoldOver
  BY <1>1, <1>4 DEF UiTask, Serve, Answer, Turn, Quiet, Tap, TapNothing, Draw, Unveil, Dismiss,
                    GoIdle, ChangeUi, locks
<1>5. CASE AppMain
  BY <1>5 DEF AppMain, StartBle, InitVault, StartSerial, StartUi, Bringup, locks, Stages
<1>6. CASE UNCHANGED vars
  BY <1>1, <1>6 DEF vars, locks
<1> QED
  BY <1>2, <1>3, <1>4, <1>5, <1>6 DEF Next

\* A note that is given up was acknowledged, and one acknowledged was given an id.
LEMMA HistoryStep == HistoryTypes /\ [Next]_vars => HistoryTypes'
<1> SUFFICES ASSUME HistoryTypes, [Next]_vars PROVE HistoryTypes'
  OBVIOUS
<1> USE DEF HistoryTypes
<1>1. CASE UNCHANGED <<used, acked>>
  BY <1>1
<1>2. ASSUME NEW t \in Transports, Dispatch(t) PROVE HistoryTypes'
  BY <1>2 DEF Dispatch, ImportSecret, ExportSecret, PruneSpent, Refuse, Ask
<1>3. ASSUME NEW t \in Transports, Answered(t) PROVE HistoryTypes'
  <2>1. used' = used /\ acked' \subseteq acked
    BY <1>3 DEF Answered, Act, MarkSpent, Delete, Sweep
  <2> QED
    BY <2>1
<1> QED
  BY <1>1, <1>2, <1>3
  DEF Next, vars, UiTask, AppMain, Arrive, AcquireCmd, Release, Serve, Answer, HoldOver, Turn,
      Quiet, Tap, TapNothing, Draw, Unveil, Dismiss, GoIdle, ChangeUi, StartBle, InitVault,
      StartSerial, StartUi, Bringup

LEMMA TaskStep == TaskTypes /\ [Next]_vars => TaskTypes'
<1> SUFFICES ASSUME TaskTypes, [Next]_vars PROVE TaskTypes'
  OBVIOUS
<1> USE DEF TaskTypes
<1>1. CASE UNCHANGED task
  BY <1>1
<1>2. ASSUME NEW t \in Transports,
             \/ \E c \in Commands : Arrive(t, c)
             \/ AcquireCmd(t) \/ Dispatch(t) \/ Answered(t) \/ Release(t)
      PROVE  TaskTypes'
  <2>1. \/ \E c \in Commands : task' = [task EXCEPT ![t] = [at |-> "lock", cmd |-> c]]
        \/ \E at \in {"vault", "wait"} : task' = [task EXCEPT ![t].at = at]
        \/ \E at \in {"release", "idle"} : task' = [task EXCEPT ![t] = [at |-> at, cmd |-> Nil]]
    BY <1>2 DEF Arrive, AcquireCmd, Dispatch, ImportSecret, ExportSecret, PruneSpent, Refuse, Ask,
                Answered, Release, Goto, Finish
  <2>2. ASSUME NEW c \in Commands, task' = [task EXCEPT ![t] = [at |-> "lock", cmd |-> c]]
        PROVE  TaskTypes'
    <3>1. c \in Command
      BY DeviceAssumption
    <3> QED
      BY <2>2, <3>1
  <2>3. ASSUME NEW at \in {"vault", "wait"}, task' = [task EXCEPT ![t].at = at]
        PROVE  TaskTypes'
    BY <2>3
  <2>4. ASSUME NEW at \in {"release", "idle"},
               task' = [task EXCEPT ![t] = [at |-> at, cmd |-> Nil]]
        PROVE  TaskTypes'
    BY <2>4
  <2> QED
    BY <2>1, <2>2, <2>3, <2>4
<1> QED
  BY <1>1, <1>2
  DEF Next, vars, UiTask, AppMain, Serve, Answer, HoldOver, Turn, Quiet, Tap, TapNothing, Draw,
      Unveil, Dismiss, GoIdle, ChangeUi, StartBle, InitVault, StartSerial, StartUi, Bringup

\* What a hook puts into the request queue.
LEMMA QuestionIsRequest ==
    ASSUME NotesInv, NEW t \in Transports
    PROVE  Question(t) \in Request
<1> DEFINE c == task[t].cmd
           card == IF c = Prune THEN Nil ELSE Lookup(c.id)
           count == IF c = Prune THEN Cardinality(Spent) ELSE 0
<1>1. card \in Note \cup {Nil}
  BY DEF Lookup, HasNote, NotesInv
<1>2. count \in Nat
  <2>1. Len(notes) \in Nat /\ Spent \subseteq 1 .. Len(notes)
    BY DEF NotesInv, Spent
  <2>2. IsFiniteSet(1 .. Len(notes))
    BY <2>1, FS_Interval
  <2>3. Cardinality(Spent) \in Nat
    BY <2>1, <2>2, FS_Subset, FS_CardinalityType
  <2> QED
    BY <2>3
<1>3. PICK early \in BOOLEAN : early = (stage = "ble")
  OBVIOUS
<1>4. Question(t) = [from |-> t, card |-> card, count |-> count, early |-> early]
  BY <1>3, Zenon DEF Question
<1> HIDE DEF card, count
<1> QED
  BY <1>1, <1>2, <1>4 DEF Request

LEMMA TalkStep ==
    NotesInv /\ UiTypes /\ TalkTypes /\ [Next]_vars => TalkTypes'
<1> SUFFICES ASSUME NotesInv, UiTypes, TalkTypes, [Next]_vars PROVE TalkTypes'
  OBVIOUS
<1> USE DEF TalkTypes
<1>1. CASE UNCHANGED <<requests, reply>>
  BY <1>1
<1>2. ASSUME NEW t \in Transports, Dispatch(t) PROVE TalkTypes'
  <2>1. reply' = reply /\ (requests' = requests \/ requests' = Append(requests, Question(t)))
    BY <1>2 DEF Dispatch, ImportSecret, ExportSecret, PruneSpent, Refuse, Ask
  <2> QED
    BY <2>1, QuestionIsRequest
<1>3. ASSUME NEW t \in Transports, Answered(t) PROVE TalkTypes'
  <2>1. requests' = requests /\ reply' = [reply EXCEPT ![t] = NoReply]
    BY <1>3 DEF Answered
  <2> QED
    BY <2>1 DEF NoReply, Reply
<1>4. CASE Serve
  BY <1>4 DEF Serve
<1>5. ASSUME NEW a \in {"yes", "no"}, Answer(a) PROVE TalkTypes'
  <2>1. ui.request \in Request /\ requests' = requests
    BY <1>5 DEF Answer, UiTypes
  <2> DEFINE r == [answer |-> a, card |-> ui.request.card, count |-> ui.request.count,
                   early |-> ui.request.early]
  <2>2. r \in Reply /\ ui.request.from \in Transports
    BY <2>1 DEF Request, Reply
  <2>3. reply' = [reply EXCEPT ![ui.request.from] = r]
    BY <1>5 DEF Answer
  <2> HIDE DEF r
  <2> QED
    BY <2>1, <2>2, <2>3
<1> QED
  BY <1>1, <1>2, <1>3, <1>4, <1>5
  DEF Next, vars, UiTask, AppMain, Arrive, AcquireCmd, Release, HoldOver, Turn, Quiet, Tap,
      TapNothing, Draw, Unveil, Dismiss, GoIdle, ChangeUi, StartBle, InitVault, StartSerial,
      StartUi, Bringup

LEMMA UiStep == NotesInv /\ TalkTypes /\ UiTypes /\ [Next]_vars => UiTypes'
<1> SUFFICES ASSUME NotesInv, TalkTypes, UiTypes, [Next]_vars PROVE UiTypes'
  OBVIOUS
<1> USE DEF UiTypes, Ui
<1>1. CASE UNCHANGED ui
  BY <1>1
<1>2. CASE Serve
  <2>1. Head(requests) \in Request
    BY <1>2 DEF Serve, TalkTypes
  <2> DEFINE r == Head(requests)
             card == IF r.card = Nil THEN Nil ELSE r.card.id
  <2>2. card \in NoteIds \cup {Nil}
    BY <2>1 DEF Request, Note
  <2>3. ui' = [ui EXCEPT !.at = "prompt", !.request = r, !.qr = Nil, !.card = card]
    BY <1>2 DEF Serve
  <2> HIDE DEF r, card
  <2>4. r \in Request
    BY <2>1 DEF r
  <2> QED
    BY <2>2, <2>3, <2>4
<1>3. ASSUME NEW a \in {"yes", "no"}, Answer(a) PROVE UiTypes'
  BY <1>3 DEF Answer
<1>4. CASE HoldOver \/ GoIdle
  <2>1. ui' = [ui EXCEPT !.at = "loop", !.mode = "idle", !.index = 0, !.selected = Nil,
                         !.card = Nil, !.qr = Nil, !.request = Nil]
    BY <1>4, Zenon DEF HoldOver, GoIdle, Resting
  <2> QED
    BY <2>1
<1>5. CASE Turn \/ Quiet
  BY <1>5 DEF Turn, Quiet
<1>6. CASE Tap
  <2>1. PICK i \in DOMAIN notes :
            ui' = [ui EXCEPT !.at = "draw", !.mode = "browse", !.index = i,
                             !.selected = notes[i].id]
    BY <1>6 DEF Tap
  <2>2. notes[i] \in Note /\ i \in Nat
    BY DEF NotesInv
  <2>3. notes[i].id \in NoteIds
    BY <2>2 DEF Note
  <2> DEFINE id == notes[i].id
  <2>4. ui' = [ui EXCEPT !.at = "draw", !.mode = "browse", !.index = i, !.selected = id]
    BY <2>1
  <2>5. id \in NoteIds
    BY <2>3
  <2> HIDE DEF id
  <2> QED
    BY <2>2, <2>4, <2>5
<1>7. CASE TapNothing
  BY <1>7 DEF TapNothing
<1>8. CASE Draw
  <2> DEFINE card == IF ui.index \in DOMAIN notes THEN notes[ui.index].id ELSE Nil
  <2>1. card \in NoteIds \cup {Nil}
    <3>1. \A i \in DOMAIN notes : notes[i] \in Note
      BY DEF NotesInv
    <3>2. \A n \in Note : n.id \in NoteIds
      BY DEF Note
    <3> QED
      BY <3>1, <3>2
  <2>2. ui' = [ui EXCEPT !.at = "loop", !.qr = Nil, !.card = card]
    BY <1>8 DEF Draw
  <2> HIDE DEF card
  <2> QED
    BY <2>1, <2>2
<1>9. CASE Unveil
  BY <1>9 DEF Unveil, Unveiled
<1>10. CASE StartUi
  BY <1>10 DEF StartUi
<1>11. CASE Dismiss
  BY <1>11 DEF Dismiss
<1> QED
  BY <1>1, <1>2, <1>3, <1>4, <1>5, <1>6, <1>7, <1>8, <1>9, <1>10, <1>11
  DEF Next, vars, UiTask, AppMain, Arrive, AcquireCmd, Dispatch, ImportSecret, ExportSecret,
      PruneSpent, Refuse, Ask, Answered, Release, StartBle, InitVault, StartSerial

\* The request queue never holds more than the one question.
LEMMA QueueIsShort == QuestionInv => Len(requests) <= 1
<1> SUFFICES ASSUME QuestionInv PROVE Len(requests) <= 1
  OBVIOUS
<1>1. requests = <<>> \/ requests = <<Head(requests)>>
  BY DEF QuestionInv, OneQuestion, NothingAsked, Queued, OnScreen, Replied
<1>2. ASSUME NEW r, requests = <<r>> PROVE Len(requests) = 1
  BY <1>2
<1> QED
  BY <1>1, <1>2

\* The variables have their types: among others the request queue holds at most one
\* question, a prompt on the screen has its request, and no two notes have one id.
THEOREM TypeCorrect == Spec => []TypeOK
<1> DEFINE Proved == LockInv /\ ScreenInv /\ NotesInv /\ QuestionInv /\ CustodyInv
           Types == PlainTypes /\ HistoryTypes /\ TaskTypes /\ TalkTypes /\ UiTypes
<1>1. Init => Proved
  BY LockInit, ScreenInit, NotesInit, QuestionInit, CustodyInit
<1>2. Proved /\ [Next]_vars => Proved'
  BY LockStep, ScreenStep, NotesStep, QuestionStep, CustodyStep
<1>3. Init => Types
  <2> SUFFICES ASSUME Init PROVE Types
    OBVIOUS
  <2>1. PlainTypes /\ TaskTypes
    BY DEF Init, PlainTypes, TaskTypes, Stages
  <2>2. HistoryTypes
    <3>1. \A i \in DOMAIN Stored : Stored[i] \in Note
      BY DeviceAssumption
    <3>2. \A n \in Note : n.id \in NoteIds
      BY DEF Note
    <3> QED
      BY <3>1, <3>2 DEF Init, HistoryTypes
  <2>3. TalkTypes
    BY DEF Init, TalkTypes, NoReply, Reply
  <2>4. UiTypes
    BY DEF Init, UiTypes, Ui
  <2> QED
    BY <2>1, <2>2, <2>3, <2>4
<1>4. Proved /\ Types /\ [Next]_vars => Types'
  BY PlainStep, HistoryStep, TaskStep, TalkStep, UiStep
<1>5. Proved /\ Types => TypeOK
  <2> SUFFICES ASSUME Proved, Types PROVE TypeOK
    OBVIOUS
  <2>1. notes \in Seq(Note) /\ \A i, j \in DOMAIN notes : notes[i].id = notes[j].id => i = j
    BY DEF NotesInv, Distinct
  <2> QED
    BY <2>1, QueueIsShort
    DEF PlainTypes, HistoryTypes, TaskTypes, TalkTypes, UiTypes, CustodyInv, TypeOK
<1> QED
  BY <1>1, <1>2, <1>3, <1>4, <1>5, PTL DEF Spec
=============================================================================
