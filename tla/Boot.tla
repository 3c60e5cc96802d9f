-------------------------------- MODULE Boot --------------------------------
(***************************************************************************)
(* What outlives a boot and what does not: app_main() bringing storage and *)
(* the identity key up (src/src/main.c, src/src/storage/nvs_storage.c),    *)
(* the wipe command taking them down again (handle_wipe() of               *)
(* src/src/proto/dispatcher.c), and the breadcrumb of                      *)
(* src/src/crash_crumb.c in RTC memory.                                    *)
(*                                                                         *)
(* Every call into NVS is a step that can fail, and power can go or the    *)
(* firmware panic between any two of them.  A write of the vault is one    *)
(* step here (module Vault takes it apart), and new_secret stands for the  *)
(* commands that write.  Commands that come over BLE before vault_init()   *)
(* and touch notes are in module Device.                                   *)
(***************************************************************************)
EXTENDS Naturals

CONSTANTS
    Notes,       \* notes, never given twice
    MaxBoots,    \* bound: boots in a behaviour
    None         \* no note, no command

Command == {"new_secret", "identify", "reset", "wipe"}

ASSUME BootAssumption ==
    /\ MaxBoots \in Nat \ {0}
    /\ None \notin Notes \cup Command

VARIABLES
    flash,      \* the NVS partition: the index, the note blobs, the key, its format
    nvs,        \* nvs_flash_init() done, g_open, g_state
    vault,      \* g_notes, g_index_known, and whether vault_init() got storage
    identity,   \* g_identity_seed once g_identity_ready, else NoSeed
    crumb,      \* g_crumb, in RTC memory; its cmd is None unless cmd_in_flight
    reason,     \* why the chip was reset
    lastCmd,    \* g_last_cmd
    stage,      \* the next thing app_main() does
    job,        \* the command in progress and its next step
    rebootDue,  \* device_reboot_delayed() has started its timer
    boots,      \* history: boots so far
    used,       \* history: notes there have been
    kept,       \* history: notes a reply said are stored, no wipe approved since
    gone,       \* history: notes an ok reply to wipe was about
    pinned,     \* history: the key identify answered with
    changed,    \* history: a wipe or a failed read since excuses another key
    fell        \* history: the command the last reset interrupted; "unread" if it
                \* came after a power-on, before crash_crumb_boot() had run

volatile == <<nvs, vault, identity, lastCmd, stage, job, rebootDue>>
history == <<boots, used, kept, gone, pinned, changed, fell>>
vars == <<flash, volatile, crumb, reason, history>>

NoIndex == {None}    \* flash has no blob under INDEX_KEY
NoSeed == 0
Seeds == 1 .. MaxBoots
Name == Command \cup {None}
Format == {"ok", "full", "version"}
NoJob == [name |-> None, step |-> "run"]
Stored == IF flash.index = NoIndex THEN {} ELSE flash.index

TypeOK ==
    /\ flash \in [index: (SUBSET Notes) \cup {NoIndex}, blobs: SUBSET Notes,
                  seed: Seeds \cup {NoSeed}, format: Format]
    /\ nvs \in [up: BOOLEAN, open: BOOLEAN, state: Format \cup {"unavailable"}]
    /\ nvs.open => nvs.up
    /\ vault \in [notes: SUBSET Notes, known: BOOLEAN, stored: BOOLEAN]
    /\ identity \in Seeds \cup {NoSeed}
    /\ crumb \in [magic: BOOLEAN, cmd: Name]
    /\ reason \in {"poweron", "panic", "sw"} /\ lastCmd \in Name
    /\ stage \in {"crumb", "nvs", "open", "ble", "identity", "vault", "serve"}
    /\ job \in [name: Name, step: {"run", "asked", "close", "erase", "init", "check",
                                   "reopen", "forget", "end"}]
    /\ rebootDue \in BOOLEAN /\ boots \in 1 .. MaxBoots
    /\ used \subseteq Notes /\ kept \subseteq used /\ gone \subseteq used
    /\ pinned \in Seeds \cup {NoSeed} /\ changed \in BOOLEAN
    /\ fell \in Name \cup {"unread"}

\* What every boot starts from.
Cold == /\ nvs' = [up |-> FALSE, open |-> FALSE, state |-> "unavailable"]
        /\ vault' = [notes |-> {}, known |-> TRUE, stored |-> FALSE]
        /\ identity' = NoSeed /\ lastCmd' = None /\ stage' = "crumb"
        /\ job' = NoJob /\ rebootDue' = FALSE

\* What RTC memory may hold after a power cycle: nothing is promised.
Noise == {crumb, [magic |-> TRUE, cmd |-> "wipe"]}

\* A vault with a note in it, left by firmware that had no identity yet, or a new one.
Init ==
    /\ \E f \in Format, held \in {{}} \cup {{n} : n \in Notes} :
          flash = [index |-> IF held = {} THEN NoIndex ELSE held, blobs |-> held,
                   seed |-> NoSeed, format |-> f]
    /\ nvs = [up |-> FALSE, open |-> FALSE, state |-> "unavailable"]
    /\ vault = [notes |-> {}, known |-> TRUE, stored |-> FALSE]
    /\ identity = NoSeed /\ lastCmd = None /\ stage = "crumb"
    /\ job = NoJob /\ rebootDue = FALSE
    /\ crumb = [magic |-> FALSE, cmd |-> None]
    /\ reason = "poweron" /\ boots = 1
    /\ used = Stored /\ kept = Stored /\ gone = {}
    /\ pinned = NoSeed /\ changed = FALSE /\ fell = None

-----------------------------------------------------------------------------
(***************************************************************************)
(* app_main().                                                             *)
(***************************************************************************)

\* Mutant: the magic alone says that the crumb is real.
CrumbBootByMagic ==
    /\ stage = "crumb" /\ stage' = "nvs"
    /\ lastCmd' = IF crumb.magic THEN crumb.cmd ELSE None
    /\ crumb' = [magic |-> TRUE, cmd |-> None]
    /\ UNCHANGED <<flash, nvs, vault, identity, job, rebootDue, reason, history>>

\* crash_crumb_boot(): first of all, before anything here can crash.
CrumbBoot ==
    /\ stage = "crumb" /\ stage' = "nvs"
    /\ lastCmd' = IF crumb.magic /\ reason # "poweron" THEN crumb.cmd ELSE None
    /\ crumb' = [magic |-> TRUE, cmd |-> None]
    /\ UNCHANGED <<flash, nvs, vault, identity, job, rebootDue, reason, history>>

\* Mutant: the idiom of every ESP-IDF example, erase and try again.
NvsBootErasing ==
    /\ stage = "nvs" /\ stage' = "open"
    /\ nvs' = [nvs EXCEPT !.up = TRUE, !.state = "ok"]
    /\ flash' = IF flash.format = "ok" THEN flash
                ELSE [index |-> NoIndex, blobs |-> {}, seed |-> NoSeed, format |-> "ok"]
    /\ UNCHANGED <<vault, identity, lastCmd, job, rebootDue, crumb, reason, history>>

\* vault_nvs_boot(): whatever is wrong is reported and flash left alone.
NvsBoot ==
    /\ stage = "nvs" /\ stage' = "open"
    /\ \/ nvs' = [nvs EXCEPT !.up = flash.format = "ok", !.state = flash.format]
       \/ nvs' = [nvs EXCEPT !.state = "unavailable"]
    /\ UNCHANGED <<flash, vault, identity, lastCmd, job, rebootDue, crumb, reason, history>>

\* vault_nvs_storage_init(): nvs_open() needs NVS to be up, and can fail.
StorageInit(ok) == nvs' = [nvs EXCEPT !.open = ok] /\ (ok => nvs.up)

OpenStorage ==
    /\ stage = "open" /\ stage' = "ble"
    /\ \E ok \in BOOLEAN : StorageInit(ok)
    /\ UNCHANGED <<flash, vault, identity, lastCmd, job, rebootDue, crumb, reason, history>>

\* ble_gatt_start() and rng_self_test(), whose abort() is a Reset.
BleStart ==
    /\ stage = "ble" /\ stage' = "identity"
    /\ UNCHANGED <<flash, nvs, vault, identity, lastCmd, job, rebootDue, crumb,
                   reason, history>>

IdentityLoad(read) ==
    /\ read /\ nvs.open /\ flash.seed # NoSeed
    /\ identity' = flash.seed
    /\ changed' = FALSE
    /\ pinned' = IF changed THEN NoSeed ELSE pinned
    /\ UNCHANGED flash

\* Mutant: a key that could not be stored is served all the same.
IdentityGenerateUnsaved(read, s) ==
    /\ ~(read /\ nvs.open /\ flash.seed # NoSeed)
    /\ identity' = s
    /\ flash' = IF nvs.open THEN [flash EXCEPT !.seed = s] ELSE flash
    /\ changed' = FALSE
    /\ pinned' = IF changed \/ ~read THEN NoSeed ELSE pinned

\* Generated, stored, and only then served.  nvs_commit() can report failure
\* with the key on flash, which the next boot then finds.
IdentityGenerate(read, s) ==
    /\ ~(read /\ nvs.open /\ flash.seed # NoSeed)
    /\ \E written, committed \in BOOLEAN :
          /\ written => nvs.open
          /\ committed => written
          /\ flash' = IF written THEN [flash EXCEPT !.seed = s] ELSE flash
          /\ identity' = IF committed THEN s ELSE NoSeed
          /\ changed' = IF written THEN FALSE ELSE changed
          /\ pinned' = IF written /\ (changed \/ ~read) THEN NoSeed ELSE pinned

\* identity_boot(); a read that fails counts as no key at all.  Every boot
\* draws a key of its own.
IdentityBoot ==
    /\ stage = "identity" /\ stage' = "vault"
    /\ \E read \in BOOLEAN : IdentityLoad(read) \/ IdentityGenerate(read, boots)
    /\ UNCHANGED <<nvs, vault, lastCmd, job, rebootDue, crumb, reason, boots, used, kept,
                   gone, fell>>

\* vault_init() with an index it can read or not, or
\* vault_init_storage_unavailable().
VaultInit ==
    /\ stage = "vault" /\ stage' = "serve"
    /\ \/ nvs.open /\ vault' = [notes |-> Stored, known |-> TRUE, stored |-> TRUE]
       \/ nvs.open /\ vault' = [notes |-> {}, known |-> FALSE, stored |-> TRUE]
       \/ ~nvs.open /\ vault' = [notes |-> {}, known |-> FALSE, stored |-> FALSE]
    /\ UNCHANGED <<flash, nvs, identity, lastCmd, job, rebootDue, crumb, reason, history>>

-----------------------------------------------------------------------------
(***************************************************************************)
(* Commands, one at a time (cmd_lock).  trace_cmd() marks a command before *)
(* its handler runs, and no longer once it has returned.                   *)
(***************************************************************************)
BleUp == stage \in {"identity", "vault", "serve"}

Dispatch(c) ==
    /\ job = NoJob /\ BleUp /\ (c = "new_secret" => stage = "serve")
    /\ job' = [name |-> c, step |-> "run"]
    /\ crumb' = [crumb EXCEPT !.cmd = c]
    /\ UNCHANGED <<flash, nvs, vault, identity, lastCmd, stage, rebootDue, reason, history>>

\* Mutant: trace_cmd(NULL) is forgotten.
EndUncleared ==
    /\ job.step = "end" /\ job' = NoJob
    /\ UNCHANGED <<crumb, flash, nvs, vault, identity, lastCmd, stage, rebootDue,
                   reason, history>>

End ==
    /\ job.step = "end" /\ job' = NoJob
    /\ crumb' = [crumb EXCEPT !.cmd = None]
    /\ UNCHANGED <<flash, nvs, vault, identity, lastCmd, stage, rebootDue, reason, history>>

At(c, s) == job = [name |-> c, step |-> s]
Goto(s) == job' = [job EXCEPT !.step = s]

\* Mutant: nothing stops a write from a list that could not be read.
NewSecretUnknowing(n) ==
    /\ At("new_secret", "run") /\ Goto("end")
    /\ n \notin used /\ used' = used \cup {n}
    /\ nvs.open /\ vault.stored
    /\ vault' = [vault EXCEPT !.notes = @ \cup {n}]
    /\ flash' = [flash EXCEPT !.index = vault.notes \cup {n}, !.blobs = @ \cup {n}]
    /\ kept' = kept \cup {n}
    /\ UNCHANGED <<nvs, identity, lastCmd, stage, rebootDue, crumb, reason, boots, gone,
                   pinned, changed, fell>>

\* handle_new_secret(), answered ok; the partition may be out of pages by now.
NewSecret(n) ==
    /\ At("new_secret", "run") /\ Goto("end")
    /\ n \notin used /\ used' = used \cup {n}
    /\ vault.known /\ vault.stored /\ nvs.open
    /\ vault' = [vault EXCEPT !.notes = @ \cup {n}]
    /\ \E f \in {"ok", "full"} :
          flash' = [flash EXCEPT !.index = vault.notes \cup {n}, !.blobs = @ \cup {n},
                                 !.format = f]
    /\ kept' = kept \cup {n}
    /\ UNCHANGED <<nvs, identity, lastCmd, stage, rebootDue, crumb, reason, boots, gone,
                   pinned, changed, fell>>

\* ... answered storage_full, the note taken back: refused, or a failed write.
NewSecretFails ==
    /\ At("new_secret", "run") /\ Goto("end")
    /\ UNCHANGED <<flash, nvs, vault, identity, lastCmd, stage, rebootDue, crumb, reason,
                   history>>

\* handle_identify(); without a key it answers unsupported.
Identify ==
    /\ At("identify", "run") /\ Goto("end")
    /\ pinned' = IF identity = NoSeed \/ changed THEN pinned ELSE identity
    /\ UNCHANGED <<flash, nvs, vault, identity, lastCmd, stage, rebootDue, crumb, reason,
                   boots, used, kept, gone, changed, fell>>

\* handle_reset(): refused over BLE, the only link before vault_init().
ResetCommand ==
    /\ At("reset", "run") /\ Goto("end")
    /\ \/ stage = "serve" /\ rebootDue' = TRUE
       \/ UNCHANGED rebootDue
    /\ UNCHANGED <<flash, nvs, vault, identity, lastCmd, stage, crumb, reason, history>>

-----------------------------------------------------------------------------
(***************************************************************************)
(* handle_wipe() and vault_nvs_wipe().                                     *)
(***************************************************************************)

\* "confirm" is missing or not WIPE: bad_request, or the owner is asked.
WipeAsk ==
    /\ At("wipe", "run") /\ (Goto("end") \/ Goto("asked"))
    /\ UNCHANGED <<flash, nvs, vault, identity, lastCmd, stage, rebootDue, crumb, reason,
                   history>>

\* ui_task answers once it runs: no, too late, or yes.
WipeAnswered ==
    /\ At("wipe", "asked") /\ stage = "serve"
    /\ \/ Goto("end") /\ UNCHANGED kept
       \/ Goto("close") /\ kept' = {}
    /\ UNCHANGED <<flash, nvs, vault, identity, lastCmd, stage, rebootDue, crumb, reason,
                   boots, used, gone, pinned, changed, fell>>

\* Mutant: NVS is taken down under an open handle.
WipeCloseUnder ==
    /\ At("wipe", "close")
    /\ Goto("erase") /\ nvs' = [nvs EXCEPT !.up = FALSE]
    /\ UNCHANGED <<flash, vault, identity, lastCmd, stage, rebootDue, crumb, reason, history>>

\* The handle is closed, NVS taken down; that it was not up is no failure.
WipeClose ==
    /\ At("wipe", "close")
    /\ \/ Goto("erase") /\ nvs' = [nvs EXCEPT !.open = FALSE, !.up = FALSE]
       \/ nvs.up /\ Goto("end") /\ nvs' = [nvs EXCEPT !.open = FALSE]
    /\ UNCHANGED <<flash, vault, identity, lastCmd, stage, rebootDue, crumb, reason, history>>

\* What an erase that stops half-way, or lies, leaves: any part of what there was.
PartlyErased == [index: {flash.index, NoIndex}, blobs: SUBSET flash.blobs,
                 seed: {flash.seed, NoSeed}, format: {flash.format, "ok"}]

WipeErase ==
    /\ At("wipe", "erase")
    /\ \/ Goto("init") /\ flash' \in PartlyErased
       \/ Goto("end") /\ flash' \in PartlyErased
    /\ changed' = TRUE
    /\ UNCHANGED <<nvs, vault, identity, lastCmd, stage, rebootDue, crumb, reason, boots,
                   used, kept, gone, pinned, fell>>

WipeInit ==
    /\ At("wipe", "init")
    /\ \/ Goto("check") /\ flash.format = "ok"
          /\ nvs' = [nvs EXCEPT !.up = TRUE, !.state = "ok"]
       \/ Goto("end") /\ nvs' = [nvs EXCEPT !.state = "unavailable"]
    /\ UNCHANGED <<flash, vault, identity, lastCmd, stage, rebootDue, crumb, reason, history>>

\* Mutant: an erase that reported success is believed.
WipeCheckTrusting ==
    /\ At("wipe", "check") /\ Goto("reopen")
    /\ UNCHANGED <<flash, nvs, vault, identity, lastCmd, stage, rebootDue, crumb, reason,
                   history>>

\* The index key must not be found; another error is no proof that it is not.  No
\* other key is looked for: note blobs can be there.
WipeCheck ==
    /\ At("wipe", "check")
    /\ \/ Goto("reopen") /\ flash.index = NoIndex
       \/ Goto("end")
    /\ UNCHANGED <<flash, nvs, vault, identity, lastCmd, stage, rebootDue, crumb, reason,
                   history>>

WipeReopen ==
    /\ At("wipe", "reopen")
    /\ \E ok \in BOOLEAN : StorageInit(ok) /\ Goto(IF ok THEN "forget" ELSE "end")
    /\ UNCHANGED <<flash, vault, identity, lastCmd, stage, rebootDue, crumb, reason, history>>

\* Mutant: the flash is wiped and RAM is not.
WipeForgetNothing ==
    /\ At("wipe", "forget") /\ Goto("end")
    /\ gone' = used
    /\ rebootDue' = TRUE
    /\ UNCHANGED <<flash, nvs, vault, identity, lastCmd, stage, crumb, reason, boots, used,
                   kept, pinned, changed, fell>>

\* vault_forget_all(), the ok reply and the delayed reboot.  What the index
\* says of this boot stays as it is.  (Writing zeroes over g_notes in RAM cannot
\* fail, so vault_secrets_cleared() holds here and its error path is dead.)
WipeForget ==
    /\ At("wipe", "forget") /\ Goto("end")
    /\ gone' = used
    /\ vault' = [vault EXCEPT !.notes = {}]
    /\ rebootDue' = TRUE
    /\ UNCHANGED <<flash, nvs, identity, lastCmd, stage, crumb, reason, boots, used,
                   kept, pinned, changed, fell>>

-----------------------------------------------------------------------------
\* The chip is reset and starts over.  A command or an erase stops where it is;
\* RTC memory survives anything but the loss of power.
Reset(why) ==
    /\ boots < MaxBoots /\ boots' = boots + 1
    /\ why = "sw" => rebootDue
    /\ reason' = why
    /\ fell' = CASE why = "poweron" -> None
                 [] why # "poweron" /\ stage = "crumb" ->
                        IF reason = "poweron" THEN "unread" ELSE fell
                 [] why # "poweron" /\ stage # "crumb" -> job.name
    /\ crumb' \in IF why = "poweron" THEN Noise ELSE {crumb}
    /\ IF At("wipe", "erase")
       THEN flash' \in PartlyErased /\ changed' = TRUE
       ELSE UNCHANGED <<flash, changed>>
    /\ Cold
    /\ UNCHANGED <<used, kept, gone, pinned>>

BootStep == CrumbBoot \/ NvsBoot \/ OpenStorage \/ BleStart \/ IdentityBoot \/ VaultInit
CommandStep == \/ \E c \in Command : Dispatch(c)
               \/ \E n \in Notes : NewSecret(n)
               \/ NewSecretFails \/ Identify \/ ResetCommand \/ End
WipeStep == \/ WipeAsk \/ WipeAnswered \/ WipeClose \/ WipeErase
            \/ WipeInit \/ WipeCheck \/ WipeReopen \/ WipeForget

Next == BootStep \/ CommandStep \/ WipeStep \/ \E why \in {"poweron", "panic", "sw"} : Reset(why)

Spec == Init /\ [][Next]_vars
-----------------------------------------------------------------------------
(***************************************************************************)
(* Properties.                                                             *)
(***************************************************************************)

\* "DOES NOT ERASE IT for any reason": what was acknowledged stays on flash
\* through every boot, unreadable, full or of another version as it may be, and
\* through every failed or declined wipe, until the owner approves one: its blob
\* and its name in the index.
KeptUntilWiped == kept \subseteq Stored \cap flash.blobs

\* handle_wipe(): once wipe has answered ok, no note there was before is named by
\* the index or in RAM, then and at every later boot, so none is listed, exported
\* or spent again.  Its blob may still be on flash (see WipedIsErased).
WipedNeverComesBack == gone \cap (Stored \cup vault.notes) = {}

\* identity_boot(), "Refuse to serve an identity that cannot be remembered":
\* a host that pinned a key is never shown another one, but for a wipe or a
\* boot that could not read the key.
IdentityIsRemembered == identity # NoSeed /\ pinned # NoSeed /\ ~changed => identity = pinned

\* crash_crumb.h: the command a boot reports is the one that had not returned
\* when the chip was reset, and none after a loss of power.
CrumbNamesWhatDidNotReturn == stage # "crumb" /\ fell # "unread" => lastCmd = fell

\* handle_get_info()
StorageName == IF vault.known THEN nvs.state ELSE "index_unreadable"

\* PROTOCOL.md:138: a partition out of pages is reported as such, since the way
\* out of it (wipe) is the one an unreadable index must not be met with.
FullIsReported == stage = "serve" /\ nvs.state = "full" => StorageName = "full"

\* PROTOCOL.md:594, wipe "reports failure rather than success if anything is
\* still readable": no secret of before an ok reply is left on flash.
WipedIsErased == gone \cap flash.blobs = {}
=============================================================================
