----------------------------- MODULE BootProofs -----------------------------
(***************************************************************************)
(* Proofs about Boot, for every number of notes and of boots: what is      *)
(* acknowledged stays, what is wiped never comes back, the key a host      *)
(* pinned is the one it is shown, and the crumb names the command that     *)
(* fell.                                                                   *)
(***************************************************************************)
EXTENDS Boot, TLAPS

-----------------------------------------------------------------------------
(***************************************************************************)
(* The shape of the records the proofs look into, one variable at a time.  *)
(***************************************************************************)
Step == {"run", "asked", "close", "erase", "init", "check", "reopen", "forget", "end"}

FlashShape == flash \in [index: (SUBSET Notes) \cup {NoIndex}, blobs: SUBSET Notes,
                         seed: Seeds \cup {NoSeed}, format: Format]
VaultShape == vault \in [notes: SUBSET Notes, known: BOOLEAN, stored: BOOLEAN]
JobShape == job \in [name: Name, step: Step]
CrumbShape == crumb \in [magic: BOOLEAN, cmd: Name]
Bound == boots \in Seeds
Shape == FlashShape /\ VaultShape /\ JobShape /\ CrumbShape /\ Bound

LEMMA BoundStep == Bound /\ [Next]_vars => Bound'
<1> SUFFICES ASSUME Bound, [Next]_vars PROVE Bound'
  OBVIOUS
<1>1. CASE \E why \in {"poweron", "panic", "sw"} : Reset(why)
  <2>1. boots < MaxBoots /\ boots' = boots + 1
    BY <1>1 DEF Reset
  <2> QED
    BY <2>1, BootAssumption DEF Bound, Seeds
<1>2. CASE UNCHANGED boots
  BY <1>2 DEF Bound
<1> QED
  BY <1>1, <1>2
  DEF Next, vars, history, BootStep, CommandStep, WipeStep, CrumbBoot, NvsBoot, OpenStorage,
      BleStart, IdentityBoot, VaultInit, Dispatch, NewSecret, NewSecretFails, Identify,
      ResetCommand, End, WipeAsk, WipeAnswered, WipeClose, WipeErase, WipeInit, WipeCheck,
      WipeReopen, WipeForget

\* Who writes flash.
LEMMA FlashWriters ==
    ASSUME [Next]_vars
    PROVE  \/ UNCHANGED flash
           \/ \E n \in Notes : NewSecret(n)
           \/ IdentityBoot \/ WipeErase
           \/ \E why \in {"poweron", "panic", "sw"} : Reset(why)
BY DEF Next, vars, BootStep, CommandStep, WipeStep, CrumbBoot, NvsBoot, OpenStorage,
       BleStart, VaultInit, Dispatch, NewSecretFails, Identify, ResetCommand, End, WipeAsk,
       WipeAnswered, WipeClose, WipeInit, WipeCheck, WipeReopen, WipeForget

LEMMA PartlyErasedShape ==
    ASSUME FlashShape, flash' \in PartlyErased
    PROVE  FlashShape' /\ Stored' \subseteq Stored
           /\ (flash.index = NoIndex => flash'.index = NoIndex)
BY DEF FlashShape, PartlyErased, Format, Stored

LEMMA FlashStep == Shape /\ [Next]_vars => FlashShape'
<1> SUFFICES ASSUME FlashShape, VaultShape, Bound, [Next]_vars PROVE FlashShape'
  BY DEF Shape
<1>1. CASE UNCHANGED flash
  BY <1>1 DEF FlashShape
<1>2. ASSUME NEW n \in Notes, NewSecret(n) PROVE FlashShape'
  <2>1. PICK f \in {"ok", "full"} :
            flash' = [flash EXCEPT !.index = vault.notes \cup {n},
                                   !.blobs = flash.blobs \cup {n}, !.format = f]
    BY <1>2 DEF NewSecret
  <2>2. vault.notes \cup {n} \in SUBSET Notes
    BY DEF VaultShape
  <2>3. flash.blobs \cup {n} \in SUBSET Notes
    BY DEF FlashShape
  <2> QED
    BY <2>1, <2>2, <2>3 DEF FlashShape, Format
<1>3. CASE IdentityBoot
  <2>1. UNCHANGED flash \/ flash' = [flash EXCEPT !.seed = boots]
    BY <1>3 DEF IdentityBoot, IdentityLoad, IdentityGenerate
  <2> QED
    BY <2>1 DEF FlashShape, Bound
<1>4. CASE WipeErase
  BY <1>4, PartlyErasedShape DEF WipeErase
<1>5. ASSUME NEW why \in {"poweron", "panic", "sw"}, Reset(why) PROVE FlashShape'
  <2>1. UNCHANGED flash \/ flash' \in PartlyErased
    BY <1>5 DEF Reset
  <2> QED
    BY <1>1, <2>1, PartlyErasedShape
<1> QED
  BY <1>1, <1>2, <1>3, <1>4, <1>5, FlashWriters

\* Who writes g_notes.
LEMMA VaultWriters ==
    ASSUME [Next]_vars
    PROVE  \/ UNCHANGED vault
           \/ VaultInit \/ WipeForget
           \/ \E n \in Notes : NewSecret(n)
           \/ vault' = [notes |-> {}, known |-> TRUE, stored |-> FALSE]
BY DEF Next, vars, volatile, BootStep, CommandStep, WipeStep, CrumbBoot, NvsBoot, OpenStorage,
       BleStart, IdentityBoot, Dispatch, NewSecretFails, Identify, ResetCommand, End, WipeAsk,
       WipeAnswered, WipeClose, WipeErase, WipeInit, WipeCheck, WipeReopen, Reset, Cold

LEMMA VaultStep == Shape /\ [Next]_vars => VaultShape'
<1> SUFFICES ASSUME FlashShape, VaultShape, [Next]_vars PROVE VaultShape'
  BY DEF Shape
<1>1. CASE UNCHANGED vault
  BY <1>1 DEF VaultShape
<1>2. CASE VaultInit
  <2>1. Stored \in SUBSET Notes
    BY DEF Stored, FlashShape
  <2>2. \/ vault' = [notes |-> Stored, known |-> TRUE, stored |-> TRUE]
        \/ vault' = [notes |-> {}, known |-> FALSE, stored |-> TRUE]
        \/ vault' = [notes |-> {}, known |-> FALSE, stored |-> FALSE]
    BY <1>2, Zenon DEF VaultInit
  <2>3. ASSUME NEW n \in SUBSET Notes, NEW k \in BOOLEAN, NEW t \in BOOLEAN
        PROVE  [notes |-> n, known |-> k, stored |-> t]
                  \in [notes: SUBSET Notes, known: BOOLEAN, stored: BOOLEAN]
    OBVIOUS
  <2> QED
    BY <2>1, <2>2, <2>3, Zenon DEF VaultShape
<1>3. CASE WipeForget
  BY <1>3 DEF WipeForget, VaultShape
<1>4. ASSUME NEW n \in Notes, NewSecret(n) PROVE VaultShape'
  BY <1>4 DEF NewSecret, VaultShape
<1>5. CASE vault' = [notes |-> {}, known |-> TRUE, stored |-> FALSE]
  BY <1>5 DEF VaultShape
<1> QED
  BY <1>1, <1>2, <1>3, <1>4, <1>5, VaultWriters

LEMMA GotoShape ==
    ASSUME JobShape, NEW s \in Step, Goto(s)
    PROVE  JobShape' /\ job'.name = job.name /\ job'.step = s
BY DEF JobShape, Goto

\* What becomes of the command in progress.
LEMMA JobWriters ==
    ASSUME [Next]_vars
    PROVE  \/ UNCHANGED job
           \/ \E c \in Command : Dispatch(c)
           \/ job' = NoJob
           \/ \E s \in Step : Goto(s)
<1>1. CASE BootStep \/ UNCHANGED vars
  BY <1>1 DEF BootStep, CrumbBoot, NvsBoot, OpenStorage, BleStart, IdentityBoot, VaultInit,
              vars, volatile
<1>2. CASE CommandStep
  BY <1>2 DEF CommandStep, NewSecret, NewSecretFails, Identify, ResetCommand, End, Step
<1>3. CASE WipeStep
  BY <1>3 DEF WipeStep, WipeAsk, WipeAnswered, WipeClose, WipeErase, WipeInit, WipeCheck,
              WipeReopen, WipeForget, Step
<1>4. CASE \E why \in {"poweron", "panic", "sw"} : Reset(why)
  BY <1>4 DEF Reset, Cold
<1> QED
  BY <1>1, <1>2, <1>3, <1>4 DEF Next

LEMMA JobStep == Shape /\ [Next]_vars => JobShape'
<1> SUFFICES ASSUME JobShape, [Next]_vars PROVE JobShape'
  BY DEF Shape
<1>1. CASE \E c \in Command : Dispatch(c)
  BY <1>1 DEF Dispatch, JobShape, Name, Step
<1>2. CASE job' = NoJob
  BY <1>2 DEF JobShape, NoJob, Name, Step
<1>3. CASE UNCHANGED job
  BY <1>3 DEF JobShape
<1> QED
  BY <1>1, <1>2, <1>3, JobWriters, GotoShape

LEMMA CrumbStep == Shape /\ [Next]_vars => CrumbShape'
<1> SUFFICES ASSUME CrumbShape, [Next]_vars PROVE CrumbShape'
  BY DEF Shape
<1>1. \/ UNCHANGED crumb
      \/ crumb' = [magic |-> TRUE, cmd |-> None]
      \/ crumb' = [magic |-> TRUE, cmd |-> "wipe"]
      \/ \E c \in Name : crumb' = [crumb EXCEPT !.cmd = c]
  <2>1. CASE BootStep \/ UNCHANGED vars
    BY <2>1 DEF BootStep, CrumbBoot, NvsBoot, OpenStorage, BleStart, IdentityBoot, VaultInit,
                vars
  <2>2. CASE CommandStep
    BY <2>2 DEF CommandStep, Dispatch, NewSecret, NewSecretFails, Identify, ResetCommand, End,
                Name
  <2>3. CASE WipeStep
    BY <2>3 DEF WipeStep, WipeAsk, WipeAnswered, WipeClose, WipeErase, WipeInit, WipeCheck,
                WipeReopen, WipeForget
  <2>4. CASE \E why \in {"poweron", "panic", "sw"} : Reset(why)
    BY <2>4 DEF Reset, Noise
  <2> QED
    BY <2>1, <2>2, <2>3, <2>4 DEF Next
<1>2. ASSUME NEW c \in Name, crumb' = [crumb EXCEPT !.cmd = c] PROVE CrumbShape'
  BY <1>2 DEF CrumbShape
<1>3. CASE crumb' = [magic |-> TRUE, cmd |-> None] \/ crumb' = [magic |-> TRUE, cmd |-> "wipe"]
  <2>1. ASSUME NEW c \in Name PROVE [magic |-> TRUE, cmd |-> c] \in [magic: BOOLEAN, cmd: Name]
    OBVIOUS
  <2>2. None \in Name /\ "wipe" \in Name
    BY DEF Name, Command
  <2> QED
    BY <1>3, <2>1, <2>2, Zenon DEF CrumbShape
<1>4. CASE UNCHANGED crumb
  BY <1>4 DEF CrumbShape
<1> QED
  BY <1>1, <1>2, <1>3, <1>4

LEMMA ShapeInit == Init => Shape
BY BootAssumption DEF Init, Shape, FlashShape, VaultShape, JobShape, CrumbShape, Bound, Seeds,
                      NoSeed, NoJob, Name, Step

LEMMA ShapeStep == Shape /\ [Next]_vars => Shape'
BY BoundStep, FlashStep, VaultStep, JobStep, CrumbStep DEF Shape

-----------------------------------------------------------------------------
(***************************************************************************)
(* Notes: what RAM knows covers what was promised, as long as the vault    *)
(* can write; past the owner's approval of a wipe nothing is promised; and *)
(* past the check of the erase flash has no index.                         *)
(***************************************************************************)
Approved == job.step \in {"close", "erase", "init", "check", "reopen", "forget"}
Verified == job.step \in {"reopen", "forget"}

Held ==
    /\ gone \subseteq used
    /\ kept \subseteq Stored /\ kept \subseteq flash.blobs
    /\ vault.stored /\ vault.known => kept \subseteq vault.notes
    /\ Approved => kept = {}
    /\ Verified => flash.index = NoIndex
    /\ gone \cap (Stored \cup vault.notes) = {}

LEMMA HeldInit == Init => Held
BY DEF Init, Held, NoJob, Approved, Verified, Stored

\* What vault_init() leaves, and what every boot starts from.
LEMMA VaultRead ==
    ASSUME VaultInit \/ Cold
    PROVE  \/ vault'.notes = Stored
           \/ vault'.notes = {} /\ ~(vault'.stored /\ vault'.known)
<1>1. CASE Cold
  <2>1. vault' = [notes |-> {}, known |-> TRUE, stored |-> FALSE]
    BY <1>1 DEF Cold
  <2>2. vault'.notes = {} /\ ~vault'.stored
    BY <2>1
  <2> QED
    BY <2>2
<1>2. CASE VaultInit
  <2>1. \/ vault' = [notes |-> Stored, known |-> TRUE, stored |-> TRUE]
        \/ vault' = [notes |-> {}, known |-> FALSE, stored |-> TRUE]
        \/ vault' = [notes |-> {}, known |-> FALSE, stored |-> FALSE]
    BY <1>2, Zenon DEF VaultInit
  <2>2. CASE vault' = [notes |-> Stored, known |-> TRUE, stored |-> TRUE]
    BY <2>2
  <2>3. CASE vault' = [notes |-> {}, known |-> FALSE, stored |-> TRUE]
    <3>1. vault'.notes = {} /\ ~vault'.known
      BY <2>3
    <3> QED
      BY <3>1
  <2>4. CASE vault' = [notes |-> {}, known |-> FALSE, stored |-> FALSE]
    <3>1. vault'.notes = {} /\ ~vault'.known
      BY <2>4
    <3> QED
      BY <3>1
  <2> QED
    BY <2>1, <2>2, <2>3, <2>4
<1> QED
  BY <1>1, <1>2

LEMMA HeldStep == Shape /\ Held /\ [Next]_vars => Held'
<1> SUFFICES ASSUME Shape, Held, [Next]_vars PROVE Held'
  OBVIOUS
<1> USE DEF Shape
<1>1. CASE BootStep
  <2>1. UNCHANGED <<job, kept, gone, used>> /\ UNCHANGED <<flash.index, flash.blobs>>
    BY <1>1 DEF BootStep, CrumbBoot, NvsBoot, OpenStorage, BleStart, IdentityBoot, VaultInit,
                IdentityLoad, IdentityGenerate, history, FlashShape
  <2>2. UNCHANGED Stored
    BY <2>1 DEF Stored
  <2>3. CASE UNCHANGED vault
    BY <2>1, <2>2, <2>3 DEF Held, Approved, Verified
  <2>4. CASE VaultInit
    BY <2>1, <2>2, <2>4, VaultRead DEF Held, Approved, Verified
  <2> QED
    BY <1>1, <2>3, <2>4
    DEF BootStep, CrumbBoot, NvsBoot, OpenStorage, BleStart, IdentityBoot
<1>2. ASSUME NEW n \in Notes, NewSecret(n) PROVE Held'
  <2>1. /\ At("new_secret", "run") /\ Goto("end") /\ n \notin used /\ used' = used \cup {n}
        /\ vault.known /\ vault.stored
        /\ vault' = [vault EXCEPT !.notes = vault.notes \cup {n}]
        /\ kept' = kept \cup {n} /\ UNCHANGED gone
    BY <1>2 DEF NewSecret
  <2>2. PICK f \in {"ok", "full"} :
            flash' = [flash EXCEPT !.index = vault.notes \cup {n},
                                   !.blobs = flash.blobs \cup {n}, !.format = f]
    BY <1>2 DEF NewSecret
  <2>3. /\ flash'.index = vault.notes \cup {n} /\ flash'.blobs = flash.blobs \cup {n}
        /\ vault'.notes = vault.notes \cup {n}
    BY <2>1, <2>2 DEF FlashShape, VaultShape
  <2>4. Stored' = vault.notes \cup {n}
    BY <2>3, BootAssumption DEF Stored, NoIndex
  <2>5. kept \subseteq vault.notes /\ gone \subseteq used /\ gone \cap vault.notes = {}
    BY <2>1 DEF Held
  <2>6. ~Approved' /\ ~Verified'
    <3>1. job'.step = "end"
      BY <2>1, GotoShape DEF Step
    <3> QED
      BY <3>1 DEF Approved, Verified
  <2>7. gone' \cap (Stored' \cup vault'.notes) = {}
    BY <2>1, <2>3, <2>4, <2>5
  <2> QED
    BY <2>1, <2>3, <2>4, <2>5, <2>6, <2>7 DEF Held
<1>3. CASE (\E c \in Command : Dispatch(c)) \/ NewSecretFails \/ Identify \/ ResetCommand \/ End
  <2>1. UNCHANGED <<flash, vault, kept, gone, used>>
    BY <1>3 DEF Dispatch, NewSecretFails, Identify, ResetCommand, End, history
  <2>2. ~Approved' /\ ~Verified'
    <3>1. job'.step \in {"run", "end"}
      BY <1>3, GotoShape DEF Dispatch, NewSecretFails, Identify, ResetCommand, End, NoJob, Step
    <3> QED
      BY <3>1 DEF Approved, Verified
  <2>3. UNCHANGED Stored
    BY <2>1 DEF Stored
  <2> QED
    BY <2>1, <2>2, <2>3 DEF Held
<1>4. CASE WipeErase
  <2>1. /\ Approved /\ Stored' \subseteq Stored /\ UNCHANGED <<vault, kept, gone, used>>
        /\ Goto("init") \/ Goto("end")
    BY <1>4, PartlyErasedShape DEF WipeErase, At, Approved
  <2>2. ~Verified'
    BY <2>1, GotoShape DEF Verified, Step
  <2> QED
    BY <2>1, <2>2 DEF Held
<1>5. CASE WipeForget
  <2>1. /\ Approved /\ Verified /\ UNCHANGED <<flash, kept, used>> /\ gone' = used
        /\ vault' = [vault EXCEPT !.notes = {}] /\ Goto("end")
    BY <1>5 DEF WipeForget, At, Approved, Verified
  <2>2. ~Approved' /\ ~Verified'
    BY <2>1, GotoShape DEF Approved, Verified, Step
  <2>3. vault'.notes = {} /\ kept = {} /\ Stored' = {}
    BY <2>1 DEF Held, Stored, VaultShape
  <2> QED
    BY <2>1, <2>2, <2>3 DEF Held
<1>6. CASE WipeAsk \/ WipeAnswered \/ WipeClose \/ WipeInit \/ WipeCheck \/ WipeReopen
  <2>1. UNCHANGED <<flash, vault, gone, used>>
    BY <1>6 DEF WipeAsk, WipeAnswered, WipeClose, WipeInit, WipeCheck, WipeReopen, history
  <2>2. UNCHANGED Stored
    BY <2>1 DEF Stored
  <2>3. kept' = {} \/ (UNCHANGED kept /\ (Approved' => Approved))
    <3>1. CASE WipeAnswered
      BY <3>1, GotoShape DEF WipeAnswered, Approved, Step
    <3>2. CASE WipeAsk
      BY <3>2, GotoShape DEF WipeAsk, Approved, Step, history
    <3>3. CASE WipeClose \/ WipeInit \/ WipeCheck \/ WipeReopen
      BY <3>3 DEF WipeClose, WipeInit, WipeCheck, WipeReopen, Approved, At, history
    <3> QED
      BY <1>6, <3>1, <3>2, <3>3
  <2>4. Verified' => flash.index = NoIndex
    <3>1. CASE WipeCheck
      BY <3>1, GotoShape DEF WipeCheck, Verified, Step
    <3>2. CASE WipeReopen
      BY <3>2 DEF WipeReopen, Verified, At, Held
    <3>3. CASE WipeAsk \/ WipeAnswered \/ WipeClose \/ WipeInit
      <4>1. job'.step \in {"end", "asked", "close", "erase", "check"}
        BY <3>3, GotoShape DEF WipeAsk, WipeAnswered, WipeClose, WipeInit, Step
      <4> QED
        BY <4>1 DEF Verified
    <3> QED
      BY <1>6, <3>1, <3>2, <3>3
  <2>5. kept' \subseteq kept
    BY <2>3
  <2> QED
    BY <2>1, <2>2, <2>3, <2>4, <2>5 DEF Held
<1>7. ASSUME NEW why \in {"poweron", "panic", "sw"}, Reset(why) PROVE Held'
  <2>1. UNCHANGED <<kept, gone, used>> /\ job' = NoJob /\ vault'.notes = {} /\ ~vault'.stored
    <3>1. vault' = [notes |-> {}, known |-> TRUE, stored |-> FALSE]
      BY <1>7 DEF Reset, Cold
    <3> QED
      BY <1>7, <3>1 DEF Reset, Cold
  <2>2. ~Approved' /\ ~Verified'
    BY <2>1 DEF Approved, Verified, NoJob
  <2>3. \/ At("wipe", "erase") /\ flash' \in PartlyErased
        \/ UNCHANGED flash
    BY <1>7 DEF Reset
  <2>4. kept = {} \/ UNCHANGED <<Stored, flash.blobs>>
    BY <2>3 DEF At, Approved, Held, Stored
  <2>5. Stored' \subseteq Stored
    BY <2>3, PartlyErasedShape DEF Stored
  <2> QED
    BY <2>1, <2>2, <2>4, <2>5 DEF Held
<1>8. CASE UNCHANGED vars
  <2>1. UNCHANGED <<flash, vault, job, kept, gone, used>>
    BY <1>8 DEF vars, volatile, history
  <2> QED
    BY <2>1 DEF Held, Approved, Verified, Stored
<1> QED
  BY <1>1, <1>2, <1>3, <1>4, <1>5, <1>6, <1>7, <1>8 DEF Next, CommandStep, WipeStep

\* nvs_storage.h, "DOES NOT ERASE IT for any reason": whatever fails, and
\* wherever power goes, a note that was acknowledged is on flash, blob and name in
\* the index, until its owner approves a wipe.
THEOREM AcknowledgedNotesStay == Spec => []KeptUntilWiped
<1>1. Held => KeptUntilWiped
  BY DEF Held, KeptUntilWiped
<1> QED
  BY <1>1, ShapeInit, ShapeStep, HeldInit, HeldStep, PTL DEF Spec

\* handle_wipe(): what an ok reply to wipe was about is not in RAM, and no index
\* on flash names it, then and after any number of boots.  This says nothing of
\* the note blobs, which vault_nvs_wipe() does not look for: an erase that lied
\* can leave them (WipedIsErased does not hold).
THEOREM WipedNotesStayAway == Spec => []WipedNeverComesBack
<1>1. Held => WipedNeverComesBack
  BY DEF Held, WipedNeverComesBack
<1> QED
  BY <1>1, ShapeInit, ShapeStep, HeldInit, HeldStep, PTL DEF Spec

-----------------------------------------------------------------------------
(***************************************************************************)
(* The key: unless a wipe or a failed read excuses it, what is served and  *)
(* what a host has pinned are both the key on flash.                       *)
(***************************************************************************)
Key ==
    ~changed => /\ identity # NoSeed => identity = flash.seed
                /\ pinned # NoSeed => pinned = flash.seed

LEMMA KeyInit == Init => Key
BY DEF Init, Key

LEMMA KeyStep == Shape /\ Key /\ [Next]_vars => Key'
<1> SUFFICES ASSUME Shape, Key, [Next]_vars PROVE Key'
  OBVIOUS
<1> USE DEF Shape
<1>1. CASE IdentityBoot
  <2>0. boots # NoSeed
    BY BootAssumption DEF Bound, Seeds, NoSeed
  <2>1. PICK read \in BOOLEAN : IdentityLoad(read) \/ IdentityGenerate(read, boots)
    BY <1>1 DEF IdentityBoot
  <2>2. CASE IdentityLoad(read)
    BY <2>2 DEF IdentityLoad, Key
  <2>3. CASE IdentityGenerate(read, boots)
    <3>1. PICK written, committed \in BOOLEAN :
            /\ written => nvs.open
            /\ committed => written
            /\ flash' = IF written THEN [flash EXCEPT !.seed = boots] ELSE flash
            /\ identity' = IF committed THEN boots ELSE NoSeed
            /\ changed' = IF written THEN FALSE ELSE changed
            /\ pinned' = IF written /\ (changed \/ ~read) THEN NoSeed ELSE pinned
      BY <2>3 DEF IdentityGenerate
    <3>2. CASE ~written
      <4>1. UNCHANGED <<flash, changed, pinned>> /\ identity' = NoSeed
        BY <3>1, <3>2
      <4> QED
        BY <4>1 DEF Key
    <3>3. CASE written
      <4>1. flash'.seed = boots /\ (identity' # NoSeed => identity' = boots)
        BY <3>1, <3>3 DEF FlashShape
      <4>2. CASE changed \/ ~read
        <5>1. pinned' = NoSeed
          BY <3>1, <3>3, <4>2
        <5> QED
          BY <4>1, <5>1 DEF Key
      <4>3. CASE ~changed /\ read
        <5>1. flash.seed = NoSeed
          BY <2>3, <3>1, <3>3, <4>3 DEF IdentityGenerate
        <5>2. pinned' = pinned /\ pinned = NoSeed
          BY <3>1, <4>3, <5>1 DEF Key
        <5> QED
          BY <4>1, <5>2 DEF Key
      <4> QED
        BY <4>2, <4>3
    <3> QED
      BY <3>2, <3>3
  <2> QED
    BY <2>1, <2>2, <2>3
<1>2. CASE Identify
  BY <1>2 DEF Identify, Key
<1>3. CASE WipeErase
  BY <1>3 DEF WipeErase, Key
<1>4. ASSUME NEW why \in {"poweron", "panic", "sw"}, Reset(why) PROVE Key'
  <2>1. identity' = NoSeed /\ UNCHANGED pinned /\ (changed' \/ UNCHANGED <<flash, changed>>)
    BY <1>4 DEF Reset, Cold
  <2> QED
    BY <2>1 DEF Key
<1>5. CASE UNCHANGED <<identity, pinned, changed, flash.seed>>
  BY <1>5 DEF Key
<1>6. ASSUME NEW n \in Notes, NewSecret(n) PROVE Key'
  <2>1. UNCHANGED <<identity, pinned, changed>>
    BY <1>6 DEF NewSecret
  <2>2. PICK f \in {"ok", "full"} :
            flash' = [flash EXCEPT !.index = vault.notes \cup {n},
                                   !.blobs = flash.blobs \cup {n}, !.format = f]
    BY <1>6 DEF NewSecret
  <2>3. flash'.seed = flash.seed
    BY <2>2 DEF FlashShape
  <2> QED
    BY <1>5, <2>1, <2>3
<1> QED
  BY <1>1, <1>2, <1>3, <1>4, <1>5, <1>6
  DEF Next, vars, volatile, history, BootStep, CommandStep, WipeStep, CrumbBoot, NvsBoot,
      OpenStorage, BleStart, VaultInit, Dispatch, NewSecretFails, ResetCommand, End, WipeAsk,
      WipeAnswered, WipeClose, WipeInit, WipeCheck, WipeReopen, WipeForget

\* identity_boot(), "Refuse to serve an identity that cannot be remembered": a
\* host is not shown a second key, but for a wipe or a read that failed.
THEOREM PinnedKeyIsShown == Spec => []IdentityIsRemembered
<1>1. Key => IdentityIsRemembered
  BY DEF Key, IdentityIsRemembered
<1> QED
  BY <1>1, ShapeInit, ShapeStep, KeyInit, KeyStep, PTL DEF Spec

-----------------------------------------------------------------------------
(***************************************************************************)
(* The crumb: once crash_crumb_boot() has run it names the command in      *)
(* progress; until then it still says what the reset interrupted, if the   *)
(* reset is of a kind that RTC memory survives.                            *)
(***************************************************************************)
Reported == IF crumb.magic /\ reason # "poweron" THEN crumb.cmd ELSE None

Crumbs ==
    /\ stage = "crumb" => job = NoJob /\ (fell # "unread" => Reported = fell)
    /\ stage # "crumb" => crumb.magic /\ crumb.cmd = job.name
    /\ CrumbNamesWhatDidNotReturn

LEMMA CrumbsInit == Init => Crumbs
BY DEF Init, Crumbs, Reported, CrumbNamesWhatDidNotReturn

LEMMA CrumbsStep == Shape /\ Crumbs /\ [Next]_vars => Crumbs'
<1> SUFFICES ASSUME Shape, Crumbs, [Next]_vars PROVE Crumbs'
  OBVIOUS
<1> USE DEF Shape
<1>1. CASE CrumbBoot
  <2>1. /\ stage = "crumb" /\ stage' = "nvs" /\ lastCmd' = Reported
        /\ UNCHANGED <<job, fell>>
    BY <1>1 DEF CrumbBoot, Reported, history
  <2>2. crumb'.magic /\ crumb'.cmd = None
    <3>1. crumb' = [magic |-> TRUE, cmd |-> None]
      BY <1>1 DEF CrumbBoot
    <3> QED
      BY <3>1
  <2>3. job'.name = None
    BY <2>1 DEF Crumbs, NoJob
  <2> QED
    BY <2>1, <2>2, <2>3 DEF Crumbs, CrumbNamesWhatDidNotReturn
<1>2. CASE NvsBoot \/ OpenStorage \/ BleStart \/ IdentityBoot \/ VaultInit
  <2>1. stage # "crumb" /\ stage' # "crumb" /\ UNCHANGED <<crumb, lastCmd, job, fell>>
    BY <1>2 DEF NvsBoot, OpenStorage, BleStart, IdentityBoot, VaultInit, history
  <2> QED
    BY <2>1 DEF Crumbs, CrumbNamesWhatDidNotReturn
<1>3. ASSUME NEW c \in Command, Dispatch(c) PROVE Crumbs'
  <2>1. /\ stage # "crumb" /\ UNCHANGED <<stage, lastCmd, fell>>
        /\ crumb' = [crumb EXCEPT !.cmd = c] /\ job' = [name |-> c, step |-> "run"]
    BY <1>3 DEF Dispatch, BleUp, history
  <2>2. crumb'.magic = crumb.magic /\ crumb'.cmd = c /\ job'.name = c
    BY <2>1 DEF CrumbShape
  <2> QED
    BY <2>1, <2>2 DEF Crumbs, CrumbNamesWhatDidNotReturn
<1>4. CASE End
  <2>1. /\ job # NoJob /\ UNCHANGED <<stage, lastCmd, fell>>
        /\ crumb' = [crumb EXCEPT !.cmd = None] /\ job' = NoJob
    BY <1>4 DEF End, history, NoJob
  <2>2. crumb'.magic = crumb.magic /\ crumb'.cmd = None /\ job'.name = None
    BY <2>1 DEF CrumbShape, NoJob
  <2>3. stage # "crumb"
    BY <2>1 DEF Crumbs
  <2> QED
    BY <2>1, <2>2, <2>3 DEF Crumbs, CrumbNamesWhatDidNotReturn
<1>5. CASE (\E s \in Step : Goto(s)) /\ job # NoJob /\ UNCHANGED <<stage, crumb, lastCmd, fell>>
  <2>1. job'.name = job.name /\ stage # "crumb"
    BY <1>5, GotoShape DEF Crumbs
  <2> QED
    BY <1>5, <2>1 DEF Crumbs, CrumbNamesWhatDidNotReturn
<1>6. CASE UNCHANGED vars
  BY <1>6 DEF vars, volatile, history, Crumbs, CrumbNamesWhatDidNotReturn, Reported
<1>7. ASSUME NEW why \in {"poweron", "panic", "sw"}, Reset(why) PROVE Crumbs'
  <2>1. stage' = "crumb" /\ job' = NoJob /\ reason' = why
    BY <1>7 DEF Reset, Cold
  <2>2. fell' # "unread" => Reported' = fell'
    <3>1. CASE why = "poweron"
      BY <1>7, <2>1, <3>1 DEF Reset, Reported
    <3>2. CASE why # "poweron" /\ stage = "crumb"
      <4>1. UNCHANGED crumb /\ fell' = IF reason = "poweron" THEN "unread" ELSE fell
        BY <1>7, <3>2 DEF Reset
      <4> QED
        BY <2>1, <3>2, <4>1 DEF Crumbs, Reported
    <3>3. CASE why # "poweron" /\ stage # "crumb"
      <4>1. UNCHANGED crumb /\ fell' = job.name
        BY <1>7, <3>3 DEF Reset
      <4> QED
        BY <2>1, <3>3, <4>1 DEF Crumbs, Reported
    <3> QED
      BY <3>1, <3>2, <3>3
  <2> QED
    BY <2>1, <2>2 DEF Crumbs, CrumbNamesWhatDidNotReturn
<1>8. CASE (\E n \in Notes : NewSecret(n)) \/ NewSecretFails \/ Identify \/ ResetCommand
  <2>1. UNCHANGED <<stage, crumb, lastCmd, fell>> /\ Goto("end") /\ job # NoJob
    <3>1. UNCHANGED <<stage, crumb, lastCmd, fell>> /\ Goto("end")
      BY <1>8 DEF NewSecret, NewSecretFails, Identify, ResetCommand, history
    <3>2. At("new_secret", "run") \/ At("identify", "run") \/ At("reset", "run")
      BY <1>8 DEF NewSecret, NewSecretFails, Identify, ResetCommand
    <3>3. job.name # None
      BY <3>2, BootAssumption DEF At, Command
    <3> QED
      BY <3>1, <3>3 DEF NoJob
  <2> QED
    BY <1>5, <2>1 DEF Step
<1>9. CASE WipeStep
  <2>1. UNCHANGED <<stage, crumb, lastCmd, fell>> /\ \E s \in Step : Goto(s)
    BY <1>9 DEF WipeStep, WipeAsk, WipeAnswered, WipeClose, WipeErase, WipeInit, WipeCheck,
                WipeReopen, WipeForget, Step, history
  <2>2. job.name # None
    BY <1>9, BootAssumption
    DEF WipeStep, WipeAsk, WipeAnswered, WipeClose, WipeErase, WipeInit, WipeCheck,
        WipeReopen, WipeForget, At, Command
  <2>3. job # NoJob
    BY <2>2 DEF NoJob
  <2> QED
    BY <1>5, <2>1, <2>3 DEF Step
<1> QED
  BY <1>1, <1>2, <1>3, <1>4, <1>6, <1>7, <1>8, <1>9 DEF Next, BootStep, CommandStep

\* crash_crumb.h: get_info reports the command that had not returned when the
\* chip was last reset, and none after a power-on, however often it is reset
\* again before it reads the crumb.
THEOREM CrumbIsTrue == Spec => []CrumbNamesWhatDidNotReturn
<1>1. Crumbs => CrumbNamesWhatDidNotReturn
  BY DEF Crumbs
<1> QED
  BY <1>1, ShapeInit, ShapeStep, CrumbsInit, CrumbsStep, PTL DEF Spec

-----------------------------------------------------------------------------
(***************************************************************************)
(* Types: what Shape leaves out.                                           *)
(***************************************************************************)
NvsShape == /\ nvs \in [up: BOOLEAN, open: BOOLEAN, state: Format \cup {"unavailable"}]
            /\ nvs.open => nvs.up
KeyShape == identity \in Seeds \cup {NoSeed} /\ pinned \in Seeds \cup {NoSeed} /\ changed \in BOOLEAN
NoteShape == used \subseteq Notes /\ kept \subseteq used /\ gone \subseteq used
StageShape == /\ stage \in {"crumb", "nvs", "open", "ble", "identity", "vault", "serve"}
              /\ reason \in {"poweron", "panic", "sw"} /\ rebootDue \in BOOLEAN
ToldShape == lastCmd \in Name /\ fell \in Name \cup {"unread"}

\* No command runs before BLE is up, and no handle is open before it is opened.
Quiet == /\ BleUp \/ job = NoJob
         /\ stage \in {"crumb", "nvs"} => ~nvs.open

LEMMA QuietStep == Quiet /\ [Next]_vars => Quiet'
<1> SUFFICES ASSUME Quiet, [Next]_vars PROVE Quiet'
  OBVIOUS
<1>1. CASE UNCHANGED vars
  BY <1>1 DEF vars, volatile, Quiet, BleUp
<1>2. CASE BootStep
  BY <1>2 DEF BootStep, CrumbBoot, NvsBoot, OpenStorage, BleStart, IdentityBoot, VaultInit, Quiet,
              BleUp
<1>3. ASSUME NEW c \in Command, Dispatch(c) PROVE Quiet'
  BY <1>3 DEF Dispatch, Quiet, BleUp
<1>4. CASE End
  BY <1>4 DEF End, Quiet, BleUp
<1>5. CASE \/ (\E n \in Notes : NewSecret(n))
           \/ NewSecretFails \/ Identify \/ ResetCommand \/ WipeStep
  <2>1. UNCHANGED stage
    BY <1>5 DEF NewSecret, NewSecretFails, Identify, ResetCommand, WipeStep, WipeAsk,
        WipeAnswered, WipeClose, WipeErase, WipeInit, WipeCheck, WipeReopen, WipeForget
  <2>2. job # NoJob
    <3>1. \E c \in Command, t \in Step : job = [name |-> c, step |-> t]
      BY <1>5 DEF At, Command, Step, NewSecret, NewSecretFails, Identify, ResetCommand, WipeStep,
          WipeAsk, WipeAnswered, WipeClose, WipeErase, WipeInit, WipeCheck, WipeReopen, WipeForget
    <3> QED
      BY <3>1, BootAssumption DEF NoJob
  <2> QED
    BY <2>1, <2>2 DEF Quiet, BleUp
<1>6. ASSUME NEW why \in {"poweron", "panic", "sw"}, Reset(why) PROVE Quiet'
  BY <1>6 DEF Reset, Cold, Quiet, BleUp
<1> QED
  BY <1>1, <1>2, <1>3, <1>4, <1>5, <1>6 DEF Next, CommandStep

LEMMA NvsStep == Shape /\ NvsShape /\ Quiet /\ [Next]_vars => NvsShape'
<1> SUFFICES ASSUME Shape, NvsShape, Quiet, [Next]_vars PROVE NvsShape'
  OBVIOUS
<1>0. flash.format \in Format
  BY DEF Shape, FlashShape
<1>1. CASE UNCHANGED nvs
  BY <1>1 DEF NvsShape
<1>2. CASE NvsBoot
  <2>1. ~nvs.open
    BY <1>2 DEF NvsBoot, Quiet
  <2>2. \/ nvs' = [nvs EXCEPT !.up = flash.format = "ok", !.state = flash.format]
        \/ nvs' = [nvs EXCEPT !.state = "unavailable"]
    BY <1>2 DEF NvsBoot
  <2>3. CASE nvs' = [nvs EXCEPT !.state = "unavailable"]
    BY <2>3 DEF NvsShape
  <2>4. CASE nvs' = [nvs EXCEPT !.up = flash.format = "ok", !.state = flash.format]
    <3>1. PICK up \in BOOLEAN : up = (flash.format = "ok")
      OBVIOUS
    <3>2. nvs' = [nvs EXCEPT !.up = up, !.state = flash.format]
      BY <2>4, <3>1, Zenon
    <3> QED
      BY <1>0, <2>1, <3>2 DEF NvsShape
  <2> QED
    BY <2>2, <2>3, <2>4
<1>3. CASE OpenStorage \/ WipeReopen
  <2>1. PICK ok \in BOOLEAN : nvs' = [nvs EXCEPT !.open = ok] /\ (ok => nvs.up)
    BY <1>3 DEF OpenStorage, WipeReopen, StorageInit
  <2> QED
    BY <2>1 DEF NvsShape
<1>4. CASE WipeClose
  BY <1>4 DEF WipeClose, NvsShape
<1>5. CASE WipeInit
  BY <1>5 DEF WipeInit, NvsShape, Format
<1>6. CASE nvs' = [up |-> FALSE, open |-> FALSE, state |-> "unavailable"]
  BY <1>6 DEF NvsShape
<1> QED
  BY <1>1, <1>2, <1>3, <1>4, <1>5, <1>6
  DEF Next, vars, volatile, BootStep, CommandStep, WipeStep, CrumbBoot, BleStart, IdentityBoot,
      VaultInit, Dispatch, NewSecret, NewSecretFails, Identify, ResetCommand, End, WipeAsk,
      WipeAnswered, WipeErase, WipeCheck, WipeForget, Reset, Cold

LEMMA KeyShapeStep == Shape /\ KeyShape /\ [Next]_vars => KeyShape'
<1> SUFFICES ASSUME Shape, KeyShape, [Next]_vars PROVE KeyShape'
  OBVIOUS
<1> USE DEF KeyShape
<1>0. flash.seed \in Seeds \cup {NoSeed} /\ boots \in Seeds
  BY DEF Shape, FlashShape, Bound
<1>1. CASE UNCHANGED <<identity, pinned, changed>>
  BY <1>1
<1>2. CASE IdentityBoot
  <2>1. PICK read \in BOOLEAN : IdentityLoad(read) \/ IdentityGenerate(read, boots)
    BY <1>2 DEF IdentityBoot
  <2>2. CASE IdentityLoad(read)
    BY <1>0, <2>2 DEF IdentityLoad
  <2>3. CASE IdentityGenerate(read, boots)
    BY <1>0, <2>3 DEF IdentityGenerate
  <2> QED
    BY <2>1, <2>2, <2>3
<1>3. CASE Identify
  BY <1>3 DEF Identify
<1>4. CASE WipeErase
  BY <1>4 DEF WipeErase
<1>5. ASSUME NEW why \in {"poweron", "panic", "sw"}, Reset(why) PROVE KeyShape'
  BY <1>5 DEF Reset, Cold
<1> QED
  BY <1>1, <1>2, <1>3, <1>4, <1>5
  DEF Next, vars, volatile, history, BootStep, CommandStep, WipeStep, CrumbBoot, NvsBoot,
      OpenStorage, BleStart, VaultInit, Dispatch, NewSecret, NewSecretFails, ResetCommand, End,
      WipeAsk, WipeAnswered, WipeClose, WipeInit, WipeCheck, WipeReopen, WipeForget

LEMMA NoteShapeStep == NoteShape /\ [Next]_vars => NoteShape'
<1> SUFFICES ASSUME NoteShape, [Next]_vars PROVE NoteShape'
  OBVIOUS
<1> USE DEF NoteShape
<1>1. CASE UNCHANGED <<used, kept, gone>>
  BY <1>1
<1>2. ASSUME NEW n \in Notes, NewSecret(n) PROVE NoteShape'
  BY <1>2 DEF NewSecret
<1>3. CASE WipeAnswered
  BY <1>3 DEF WipeAnswered
<1>4. CASE WipeForget
  BY <1>4 DEF WipeForget
<1> QED
  BY <1>1, <1>2, <1>3, <1>4
  DEF Next, vars, history, BootStep, CommandStep, WipeStep, CrumbBoot, NvsBoot, OpenStorage,
      BleStart, IdentityBoot, VaultInit, Dispatch, NewSecretFails, Identify, ResetCommand, End,
      WipeAsk, WipeClose, WipeErase, WipeInit, WipeCheck, WipeReopen, Reset

LEMMA StageShapeStep == StageShape /\ [Next]_vars => StageShape'
<1> SUFFICES ASSUME StageShape, [Next]_vars PROVE StageShape'
  OBVIOUS
<1> USE DEF StageShape
<1>1. CASE UNCHANGED <<stage, reason, rebootDue>>
  BY <1>1
<1>2. CASE BootStep
  BY <1>2 DEF BootStep, CrumbBoot, NvsBoot, OpenStorage, BleStart, IdentityBoot, VaultInit
<1>3. CASE ResetCommand \/ WipeForget
  BY <1>3 DEF ResetCommand, WipeForget
<1>4. ASSUME NEW why \in {"poweron", "panic", "sw"}, Reset(why) PROVE StageShape'
  BY <1>4 DEF Reset, Cold
<1> QED
  BY <1>1, <1>2, <1>3, <1>4
  DEF Next, vars, volatile, CommandStep, WipeStep, Dispatch, NewSecret, NewSecretFails, Identify,
      End, WipeAsk, WipeAnswered, WipeClose, WipeErase, WipeInit, WipeCheck, WipeReopen

LEMMA ToldShapeStep == Shape /\ ToldShape /\ [Next]_vars => ToldShape'
<1> SUFFICES ASSUME Shape, ToldShape, [Next]_vars PROVE ToldShape'
  OBVIOUS
<1> USE DEF ToldShape
<1>0. None \in Name /\ job.name \in Name /\ crumb.cmd \in Name
  BY DEF Shape, JobShape, CrumbShape, Name
<1>1. CASE UNCHANGED <<lastCmd, fell>>
  BY <1>1
<1>2. CASE CrumbBoot
  BY <1>0, <1>2 DEF CrumbBoot, history
<1>3. ASSUME NEW why \in {"poweron", "panic", "sw"}, Reset(why) PROVE ToldShape'
  <2>1. lastCmd' = None
    BY <1>3 DEF Reset, Cold
  <2>2. fell' \in {None, "unread", fell, job.name}
    BY <1>3 DEF Reset
  <2> QED
    BY <1>0, <2>1, <2>2
<1> QED
  BY <1>1, <1>2, <1>3
  DEF Next, vars, volatile, history, BootStep, CommandStep, WipeStep, NvsBoot, OpenStorage,
      BleStart, IdentityBoot, VaultInit, Dispatch, NewSecret, NewSecretFails, Identify,
      ResetCommand, End, WipeAsk, WipeAnswered, WipeClose, WipeErase, WipeInit, WipeCheck,
      WipeReopen, WipeForget

\* The variables have their types: among others the handle is open only while
\* NVS is up, and no note is kept, or gone, that never was.
THEOREM TypeCorrect == Spec => []TypeOK
<1> DEFINE Types == NvsShape /\ Quiet /\ KeyShape /\ NoteShape /\ StageShape /\ ToldShape
<1>1. Init => Types
  <2> SUFFICES ASSUME Init PROVE Types
    OBVIOUS
  <2>1. NvsShape /\ Quiet
    BY DEF Init, NvsShape, Quiet
  <2>2. KeyShape /\ StageShape /\ ToldShape
    BY DEF Init, KeyShape, StageShape, ToldShape, Name
  <2>3. NoteShape
    <3>1. Stored \subseteq Notes
      BY BootAssumption DEF Init, Stored, NoIndex
    <3> QED
      BY <3>1 DEF Init, NoteShape
  <2> QED
    BY <2>1, <2>2, <2>3
<1>2. Shape /\ Types /\ [Next]_vars => Types'
  BY NvsStep, QuietStep, KeyShapeStep, NoteShapeStep, StageShapeStep, ToldShapeStep
<1>3. Shape /\ Types => TypeOK
  BY DEF Shape, FlashShape, VaultShape, JobShape, CrumbShape, Bound, Step, Seeds, NvsShape,
     KeyShape, NoteShape, StageShape, ToldShape, TypeOK
<1> QED
  BY <1>1, <1>2, <1>3, ShapeInit, ShapeStep, PTL DEF Spec
=============================================================================
