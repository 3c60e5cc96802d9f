# lnurl-vault in TLA+

lnurl-vault is the firmware of a two-button device that keeps Lightning bearer
notes: a note *is* its 32-byte secret, so whoever has seen the secret has the
money, and a secret that is lost is money that is lost. This directory holds
TLA+ modules of the firmware, the TLC configurations that check them on small
instances, and TLAPS proofs of their main properties for every instance.

Paths below are relative to the repository root; the firmware is in `src/`.
Quotations name the file and line they come from. `PROJECT.json` maps every
definition to the lines it models.

## 1. Inventory

### Tasks

| task | file | does |
|------|------|------|
| `app_main` | `main.c` | brings up storage, the request queue, BLE, the vault, serial, the screen task, in that order |
| NimBLE host task | `transport/ble_gatt.c` | GAP events, reassembly of writes, queues commands; must never wait |
| `ble_cmd_task` | `transport/ble_gatt.c` | dispatches BLE commands, sends the replies |
| TinyUSB task | `transport/serial_cdc.c` | reads bytes, assembles lines, queues them |
| `serial_rx_task`, `serial_tx_task` | `transport/serial_cdc.c` | dispatch a line, write a reply |
| `ui_task` | `ui/ui_task.c` | owns screen and buttons: serves the requests for approval, else browsing |
| `esp_timer` | `device_reboot.c` | the delayed reboot |

### Components, their state, operations and what must be true of them

| component | state | operations | correct when |
|-----------|-------|------------|--------------|
| Note ledger `vault/vault.c` | `g_notes`, `g_unloaded_ids`, `g_index_known` | `vault_init`, `vault_new_secret(_pair)`, `vault_import_secret`, `vault_confirm`, `vault_mark_spent`, `vault_rename`, `vault_discard`, `vault_delete`, `vault_prune_spent`, `vault_export_secret`, `vault_forget_all` | what was answered ok survives; a removal is final; a spent note is never money again; one note per secret |
| NVS storage `storage/nvs_storage.c` | index blob, one blob per note, identity seed | `load_index`, `load_note`, `save_*`, `delete_note`, `vault_nvs_wipe` | a failure is reported, never mistaken for "empty" |
| Approval gesture `proto/approval.c` | `approval_t` | `approval_begin`, `approval_poll` | granted exactly when the owner held, denied exactly when the owner refused, always ends |
| Dispatcher `proto/dispatcher.c` | `g_source`, `g_ota` | one handler per command | gates ask before the act and name what is acted on |
| Firmware update `ota/ota.c`, `ota_*` handlers | `g_ota`, `g_partition`, flash slots | `ota_begin`, `ota_chunk`, `ota_finish`, reboot | only approved and signed images are selected; the device always boots |
| BLE `transport/ble_gatt.c`, `proto/ble_frame.c` | `g_conn_handle`, `g_link_generation`, `g_tx_notify_enabled`, `g_rx`, `g_cmd_q` | GAP events, writes, `ble_cmd_task` | no command and no reply is made of two clients' parts |
| Serial `transport/serial_cdc.c`, `proto/line_proto.c`, `proto/line_tx.c` | two queues, line buffer, link generation | receive, dispatch, transmit | a reply goes to the port that asked, or is dropped and counted |
| Locks `cmd_lock.c`, `vault_lock.c` | two mutexes | acquire, release | one command at a time; no wait for the owner holds `vault_lock` |
| Screen task `ui/ui_task.c` | mode, `browse_index`, `browse_id`, request queue | prompts, outcome card, browse, unveil, sleep | what is disclosed or destroyed is what was on the screen |
| Buttons `proto/button_fsm.c`, `ui/buttons.c`, `proto/input_health.c` | debounce state, the buttons seen released | taps, chords, health | a press that answered a prompt, or lit the screen, is not also a tap |
| Screen sleep `proto/screen_sleep.c` | asleep, last activity | touch, expire | a secret is down by its deadline |
| Boot and wiring `main.c` | the dispatcher's hooks | `app_main`, the confirm hooks | nothing is served before it is loaded, nothing erased that was not asked for |
| Identity `vault/identity.c`, `main.c` | `g_identity_seed` | generate, store, serve | a key that was shown is shown again |
| Crash breadcrumbs `crash_crumb.c` | `g_crumb` in RTC memory | `trace_cmd`, `crash_crumb_boot` | it names the command that did not return |
| Delayed reboot `device_reboot.c` | a timer | start | |
| Line framing `proto/line_proto.c`, `proto/line_tx.c` | line buffer, `needs_resync` | feed, send | lines come out whole however the stream is cut |
| Encodings `proto/json.c`, `base64.c`, `bech32.c`, `vault/hex.c`, `sha256.c`, `derive.c` | the writer, the digest's buffer | pure functions | text is decoded to what it was encoded from, or refused |
| Display and QR `ui/display.c`, `qr_display.c`, `qr_capacity.c`, `note_display.c`, `note_url.c` | the panel | draw | what is shown is the note, whole |
| Entropy, vendored Ed25519, boards | | | not modelled (section 7) |

### How they interact

A transport task takes `cmd_lock`, sets `g_source`, takes `vault_lock`, calls
`dispatcher_handle()` and gives both back. A gated handler calls a hook of
`main.c`, which gives back `vault_lock` *but not* `cmd_lock`, queues a request to
`ui_task`, waits for its answer, and takes `vault_lock` again. `ui_task` takes
`vault_lock` for its own reads of the vault and never `cmd_lock`. The two
transports share the dispatcher's globals; the BLE host task and `ble_cmd_task`
share three words and a queue, and no lock.

### What is hard

* Power may go between any two flash writes of one vault call; a write may fail,
  report failure after it took effect, and a blob or the index may be
  unreadable at one boot and readable at the next.
* A command waits up to 30 s for the owner with `vault_lock` released.
* BLE clients come, go and replace each other at any assignment of the handler.
* BLE accepts commands before the vault is loaded.
* A finished update waits ten seconds for its reboot with commands still
  accepted.
* Bounce, stuck lines and a finger left on a button, against deadlines.
* A client pages through notes while another transport adds and removes them.
* A wipe erases the partition under the vault, and may stop or lie half-way.
* A host reads slowly, not at all, or closes the port under a reply.

The list of hazards in `PROJECT.json` places each of these at its line and names
the properties about it, or says why there is none.

## 2. Modules

| module | models | proofs |
|--------|--------|--------|
| `Vault` | `vault/vault.c` over `storage/nvs_storage.c` | `VaultProofs` |
| `Ledger` | abstract: what the vault promises a host | `VaultProofs` (`Vault` implements `Ledger`) |
| `Custodian` | abstract: what the whole device promises its owner | `DeviceProofs` (`Device` implements `Custodian`) |
| `Approval` | `proto/approval.c` as `service_remote_confirm()` drives it | `ApprovalProofs` |
| `Ota` | the update session, the slots, the reboot | `DispatcherProofs` |
| `BleLink` | `transport/ble_gatt.c` | `BleLinkProofs` |
| `SerialLink` | `transport/serial_cdc.c` with `proto/line_tx.c` | `TransportProofs` |
| `Boot` | `app_main()`'s order, NVS coming up, the identity key, `wipe`, the crash crumb | `BootProofs` |
| `Device` | transport tasks, locks, confirm hooks, `ui_task`, around one vault | `DeviceProofs` |
| `Gestures` | the loop of `ui_task` against the buttons, the deadlines and the sleeping screen | `GesturesProofs` |
| `Listing` | `list_notes` page by page, the JSON writer, a client that walks the pages | `DispatcherProofs` |
| `Stream` | a stream of bytes in pieces, over `Framing` and `Digest` | `TransportProofs` |
| `Texts` | the same streams through the conversions of `Codecs`, `Numbers`, `QrCode` | |
| `MCVault`, `MCOta`, `MCDevice`, `MCListing`, `MCBoot` | values of the constants and symmetry for TLC | |

`Device` is the composition: the vault it holds is that of `Vault` seen between
calls (a call is one step, because both locks are held), the prompt it shows is a
run of `Approval`, and its transports are `BleLink`'s `ble_cmd_task` and
`SerialLink`'s `serial_rx_task` from the moment a command is complete.

**Vault.** `notes`, `unloaded`, `indexKnown` are `g_notes`, `g_unloaded_ids`,
`g_index_known`; `blobs` and `index` are flash. A call changes RAM in one step
(`NewSecret`, `ImportSecret`, `MarkSpent`, ...) and leaves its flash writes in
`op`; each write (`SaveNewNote`, `SaveUpdate`, `DeleteBlob`, `IndexCreated`,
`IndexUndone`, `IndexRemoved`) is a step that may succeed, fail without effect or
fail with effect, and `Boot` may come between any two. The reply is given in the
step of the last write: `promise` is a history variable with what the host was
told. `cut` is a history variable with the unloaded ids that a full index left
out. Left out: amounts, hosts, signatures and labels (one value `meta`), the
order of notes in the array (it matters in `Device` and `Listing`).
`Ids` and `Secrets` drawn by the RNG are assumed not to repeat what flash still
holds; an imported secret may be anything.

**Ledger.** Per note, what the next boot finds (`durable`) and what was
acknowledged (`promise`), with six kinds of change. No RAM, layout or crash.

**Custodian.** The device as one person who keeps the notes: `held`, one `caller`
with one `cmd` and its `phase` (taken, asked, a yes or a no, done), and the `card`
the owner was shown. No tasks, locks, queues or screen. `Obey` is allowed only
while the card says what would be done. In `Device` the command in hand is that of
the holder of `cmd_lock` (`CmdInHand`, `Phase`), and the card is read off the one
question wherever it is: in the request queue, on the screen or in a response
queue (`InFlight`, `Card`). A command given in over BLE before `vault_init()` is put
to the owner with no card, and `Custodian` says so (`Ask`): that is the code, and
one of the disagreements of section 3 (`NothingUnshownGoes`).

**Approval.** `approval_t` field by field: a flag with its timestamp is one
variable (`holdSince`, `releaseSince`, `cancelSince`). A step is one poll of both
raw buttons at a later time. `log` is a history of the polls; the properties are
about `log` and `state` and do not mention the code's flags.

**Ota.** `g_ota` is `session`; an image is its sequence of chunks and stands for
its digest; a signature is the image it was made for. `esp_ota_end()` and
`esp_ota_set_boot_partition()` are two steps (`OtaFinish`, `SelectSlot`), so that
power can go between them. The wait for the owner is the variable `asked`: no
other command runs meanwhile (`cmd_lock`). The bootloader (`Started`) starts the
selected slot if it holds an image, else the other.

**BleLink.** The host task's GAP handler assignment by assignment (`Bump` then
`PublishHandle`; `Bump`, `RetractHandle`, `ForgetClient`), the two writes of a
command, the queue of two, and `ble_cmd_task` with `send_response()`. Its check of
the link (`Checked`, or `LinkDropped`) and the notification, which reads
`g_conn_handle` again (`Notify`, `Refused`, or `GiveUp` past the deadline), are steps
of their own, and clients may come and go between them. `Notify` may be accepted for
a link that is on its way down as long as `g_conn_handle` names it: what that client
has then is more than it may get in fact. Each connection is a client of its own,
named by its generation.

**SerialLink.** The TinyUSB task (`QueueLine`; an edge of DTR as two steps,
`LineState` for the generation and `ClearRing` for the ring; `Transfer` for the
host reading), `serial_rx_task` (`TakeLine`, `Respond`) and `serial_tx_task`, whose
`line_tx_send()` is taken apart call by call: `serial_write()` is `CheckHost` and
then `WriteQueue`, so that the port can change hands between the check and the
write; `Retry`, `GiveUp` and `Report` are the wait, its deadline, and the counter
that is charged. A byte is the reply it belongs to and its place in it. `got` is
what a host that reads from the moment it raised DTR has of the current line.

**Boot.** `stage` walks through `app_main()`; every NVS call of `NvsBoot`,
`OpenStorage`, `IdentityBoot` and of the eight steps of `wipe` can fail. Flash is the
index, the note blobs, the key and the format: an erase may stop half-way or report
a success it did not have, and leaves any part of them (`PartlyErased`), of which
`WipeCheck` looks for the index alone, as the code does. `Reset` (power, panic, or the
delayed reboot) may come between any two. `kept`,
`gone`, `pinned`, `changed` and `fell` are history: the notes acknowledged, the notes
a wipe answered ok was about, the key a host was shown, whether another key is
excused, and the command the last reset interrupted.

**Device.** `stage` is how far `app_main` has come; `task[t]` a transport's
command from `cmd_lock` to the release; `requests` and `reply` the queues to and
from `ui_task`; `ui` the screen task's locals. `notes` keeps the order of
`g_notes`, because a removal moves the notes behind it. Five commands stand for
the rest (`import` asks nobody, `export` checks first and asks then, `mark_spent`
and `delete` are gated and change or move notes, `prune_spent` is approved by a
number). A section of `ui_task` under
`vault_lock` is one step that needs the lock free. `overrun` is a history
variable: an outcome card came down (1.8 s) before the command it was about had
acted, which needs a task to be kept from running that long.

**Gestures.** Time goes in polls of 30 ms. `level` is what was last read of the two
buttons, `fsm` is `button_fsm_t`, `at` is where the loop of `ui_task_fn()` is. A
button may go up and down again unseen between two reads. `spent` is history: the
buttons whose latest press has answered a prompt, or lit the screen; `unveiled`
counts from the chord that brought a secret up; `screen` is what is on the glass.

**Listing.** `handle_list_notes()` as a function of the notes and the arguments:
`BuildListing` runs the JSON writer over a page (`WriteNotes` is its loop), `Bisect`
is where the loop that looks for the largest page that fits ends, from any two
bounds, and `ListNotes` decides which page, error and `next_offset` a request gets.
A limit is taken as the size_t it is cast to (`AsSize`); 0 is a limit like another.
A client walks the pages (`BeginWalk`, `NextPage`, `PageRefused`) while `Add` and
`RemoveNote` change the vault. Its specification is `WalkSpec`: `Listing` and `Ota`
keep their names apart, so that `DispatcherProofs` can extend both.

**Stream.** A stream over three byte values is cut into any pieces and fed to
`line_proto_feed()` and `ble_frame_feed()` (`Framing`) and to the digest
(`Digest`: buffering and padding, not the rounds), with one `ble_frame_reset()`
anywhere. What the readers are to compute (`Lines`, `Messages`, `BlocksOf`) is said
of the whole stream, without buffers. Its specification is `StreamSpec`: `SerialLink`
and `Stream` keep their names apart, so that `TransportProofs` can extend both.

**Texts.** Before the first piece, the same bytes are given to the conversions
that take their input whole: base64, hex, bech32 (`Codecs`), the integer reader,
the depth guard, amounts, the modular addition of child keys (`Numbers`), and the
lengths, versions, scales and fallbacks of the QR (`QrCode`). Each is compared
with a definition of what it is to compute that shares none of its steps.

## 3. Runs

| run | states | checks | bounds, and why they are enough |
|-----|-------:|--------|------|
| `vault_faults` | 114,535 | Everything acknowledged survives (`AcknowledgedSurvives`), removals are final (`RemovedStaysRemoved`), a spent note is never exportable (`SpentIsNotExportable`), RAM and flash agree between calls (`RamMatchesFlash`), both arrays fit (`WithinCapacity`), unreadable notes are not touched (`UnloadedUntouched`), a note is named on flash only whole, with the other half of its split (`NamedWhole`), and `Vault` implements `Ledger`, under all five faults | 3 ids over a capacity of 2, 2 secrets: a split fills the vault, one note can be unreadable while two are held, an id is left over |
| `vault_unique` | 210,383 | No secret is held twice (`OneNotePerSecret`) as long as a boot that reads the index reads every blob it names; the other four faults happen | 3 ids, capacity 3, 2 secrets, 2 metas: a split, and an import to repeat either half |
| `approval` | 87,277 | The verdict is exactly what the owner did (`GrantedIsHeld`, `DeniedIsRefused`), and a prompt ends (`NeverLingers`) | hold 3, bounce 1, debounce 2, deadline 4, polls 0 to 2 apart: every order of the three intervals' ends and of the deadline with them; the history is bounded by the deadline plus a hold |
| `ota` | 5,920 | A device that boots at every step (`StillBoots`), the digest is of what is in flash (`DigestIsOfFlash`), and only an approved, signed image is selected (`BootIsSwitchedWhenVerified`) | 2 chunk values, images of 1 and 2 chunks, sizes up to 3: a slot too short, whole, too long, signed and unsigned, and an image of another size |
| `ble_link` | 88,641 | No command of two clients' writes (`NeverSpliced`), of a reply whose client is replaced under it at most one piece, and its last, goes to the next (`TornTailIsOnePiece`), the counters account for every command (`EveryCommandIsAccountedFor`), `ble_cmd_task` never wedges (`NeverWedged`) | generation up to 4 (two clients, one after the other, each gone again), 3 commands over a queue of 2, 3 notifications a reply: one sent whole to its client, one torn, one that would follow it |
| `serial` | 55,394 | What a host reads between two line ends is one reply without a hole (`RepliesAreContiguous`), every line is answered, counted or on its way (`EveryLineIsAccountedFor`), and in the end answered or counted (`EveryLineIsSettled`) | 3 lines over queues of 1, replies of 2 bytes and a newline over a ring of 2 (so every reply has to wait for the host), 3 edges of DTR: open, closed under a reply, opened by another host |
| `boot` | 5,108,418 | What was acknowledged stays until the owner wipes it (`KeptUntilWiped`: blob and index), no note of before an ok wipe is named by the index or held in RAM again (`WipedNeverComesBack`), the key is remembered (`IdentityIsRemembered`), the crumb is true (`CrumbNamesWhatDidNotReturn`) | 3 boots: one to store and to show, one interrupted, one to find out; 2 notes: one from before, one made since; they are interchangeable (`NoteSymmetry`) |
| `device` | 147,165 | One command at a time in the dispatcher (`SourceIsCaller`), destroyed only as shown and approved (`ActsAsShown`), the secret on the screen is the selected note's (`DisclosedIsSelected`) and that of the card looked at (`DisclosedIsShown`), every command ends (`EveryCommandEnds`), and `Device` implements `Custodian` (`ImplementsCustodian`) | a spent note before a confirmed one, and one id to import: a deletion or a prune moves the selected note; five commands, each sent any number of times by both transports |
| `gestures` | 164,379 | A press that has done its work is never a tap (`SpentPressIsSpent`), a secret comes down (`SecretComesDown`), the button that granted is not called stuck (`GrantedButtonIsHealthy`) | a chord of 2 polls, deadlines of 2, 4 and 4: the sleep falls before, with and after the others |
| `stream` | 401,041 | Commands and digests do not depend on the cuts (`PiecesDoNotMatter`), conversions are exact or refuse (`CodecsAreExact`), what is shown is what is (`ShownIsWhatIs`) | 3 byte values (a length of 0, one that fits and one that does not; an end of line), 8 bytes: two messages with a header each, over buffers of 2 characters and blocks of 4 bytes; integers up to 51,153 with the limit's last digit in the middle of a decade |
| `listing` | 11,045 | Every request is answered by a whole document with the largest page there is room for, or as many notes as the limit is in a size_t (`PagesTellAll`), and a client that walks the pages is shown nothing twice and misses no more than was removed (`WalkMissesOnlyWhatMoved`) | 4 notes of two sizes over a buffer for about two of them; a size_t of 4 values and limits from 0 to 5: none, fewer and more than there are, and two that do not fit it; 2 changes during the walk |
| `vault_cut` | violation | `persist_index()` carries unreadable notes' ids over only while its array has room (`vault/vault.c:71`), and `new_note()` counts only readable notes: with one note unreadable the vault can be filled up, and the next index leaves that note out. The comment says notes "are only ever removed from the index by remove_at(), i.e. deliberately" (`vault/vault.c:69`) | 3 ids, capacity 2, one unreadable blob |

`CHECK_DEADLOCK FALSE` is given for `ble_link`, `serial` (a link whose bounded
clients, lines and edges are used up is silent), `stream` (a stream ends) and
`listing` (a client that was shown all of an empty vault may stop). Everywhere
else a deadlock would be reported.

### Disagreements between the code and what it says of itself

`PROJECT.json` lists them under `findings`, each with the sentence it quotes.
`vault_cut` is kept as a run. For the others the module states the property that
fails, and a line in a configuration shows it:

| property | add to | what TLC shows |
|----------|--------|----------------|
| `AnswersGoToAsker` | INVARIANTS of `ble_link.cfg` | `send_response()` notes the generation after the command ran, so a client that replaced the asker meanwhile is sent the answer (`transport/ble_gatt.c:178`) |
| `NoTornTail` | INVARIANTS of `ble_link.cfg` | `send_response()` checks the link (`transport/ble_gatt.c:198`) and the notification reads `g_conn_handle` again (`:212`): with a replacement in between, one piece of the reply goes to the new client. The comment tells of "mid-stream chunks" (`:103`) as what the generation is to stop |
| `WipedIsErased` | INVARIANTS of `boot.cfg` | `vault_nvs_wipe()` looks for the index alone (`storage/nvs_storage.c:131`): an erase that removed that and left a blob is answered ok. `docs/PROTOCOL.md:594` promises failure "if anything is still readable" |
| `LimitIsHonoured` | INVARIANTS of `listing.cfg` | A limit is cast to a size_t (`proto/dispatcher.c:424`), so one that does not fit is served as what is left of it. The comment says "honoured or refused, never silently shrunk" (`:407`). The native tests, with a size_t of 64 bits, cannot meet it |
| `AckedIsHeld` | INVARIANTS of `device.cfg` | A note imported over BLE before `vault_init()` is answered ok, kept in RAM, and dropped when the vault is loaded (`main.c:371`) |
| `NothingUnshownGoes` | PROPERTIES of `device.cfg` | A gated command queued before the vault is loaded asks with no note on the card, and acts on a note that has been loaded by the time it is approved (`proto/dispatcher.c:554`) |
| `SelectedSlotIsWhole` | INVARIANTS of `ota.cfg` | Between `ota_finish` and the reboot, a new `ota_begin` that the owner approves erases the slot just selected and its chunks, not verified yet, go there; the reboot starts the old image, or what that slot then holds if the bootloader takes it for an image (`ota/ota.c:29`). `BootIsSwitchedWhenVerified` is about the switch alone |
| `FullIsReported` | INVARIANTS of `boot.cfg` | `get_info` says `index_unreadable` for a partition that is full or of another version (`proto/dispatcher.c:303`) |
| `AbandonedCleanly` | INVARIANTS of `serial.cfg` | A reader that was listening before it raised DTR is left with a reply's beginning, the rest of which the clearing of the ring took (`transport/serial_cdc.c:228`) |
| `OneNotePerSecret` | `Faults <- AllFaults` in `vault_unique.cfg` | The search for an imported secret does not see notes that could not be read at this boot, so a retried import stores a second note with the same secret (`vault/vault.c:408`) |

Four more were met while translating and are not a matter of a run, because the
model leaves out what they are about or has to exclude it:
`jw_uint64()` prints an amount above 2^53 rounded; `proto/note_display.h:31` gives
1500 as "1500 msat", where the sentence above it, the code and the tests group the
digits; a failed `prune_spent` does not say how many went; and `identity_boot()` takes a
key that cannot be read for none and writes another over it (excused in
`IdentityIsRemembered` by `changed` and the reset of `pinned`).

### Fairness

* `BleLink`: weak fairness of `ble_cmd_task`, which is a FreeRTOS task whose wait for
  a subscriber has a deadline (`TX_SUBSCRIBE_WAIT_MS`); strong fairness of `GiveUp`,
  since a notification that keeps being refused keeps getting older and
  `TX_GIVE_UP_MS` is not restarted by a piece that got through. Nothing of clients
  or the link.
* `SerialLink`: weak fairness of `serial_rx_task` and `serial_tx_task`; strong
  fairness of `GiveUp`, since a reply that keeps coming back to its wait keeps
  getting older and `TX_GIVE_UP_US` is not restarted by a byte that got through.
  Nothing of the host, which need never read, and nothing of DTR.
* `Device`: each task is scheduled; a prompt ends by its deadline (`NeverLingers`
  of `Approval`); `app_main` goes on. A FreeRTOS mutex that is free again and again
  is had at some point by a task that waits for it, hence strong fairness for
  `cmd_lock` and for `ui_task`'s waits on `vault_lock`. Nothing is assumed of
  hosts or the owner, who may keep tapping forever.

## 4. What is proved

For every value of the constants that satisfies the assumptions of the module
(`VaultAssumption`: `NoNote` is no note, a positive capacity, finitely many ids;
`OtaAssumption`: signed images are images; `ApprovalAssumption`: intervals are
positive; `SerialAssumption`: sizes are; `DeviceAssumption`: stored notes
have distinct ids; `ListingAssumption`: finitely many notes, and an error with its
tag fits in the reply buffer; `FramingAssumption`, `DigestAssumption`: a buffer has
room for its NUL, a block for the length, and so on). `theorems` in `PROJECT.json` lists the results;
each names the property of section 3 it states. The type invariant of each of these
modules is a theorem too (`TypeCorrect`; in `Ota` a part of `Inductive`, in `Listing`
of `WalkInv`, in `Stream` of `StreamInv`) and needs no run:
with `TypeOK` added to its configuration TLC agrees.

* **`VaultProofs`**: `TypeCorrect`, `AckSurvives`, `RemovalIsFinal`,
  `SpentNotExported`, `RamAndFlashAgree`, `UnreadIsUntouched`. None of these is
  inductive: a call in progress breaks the relation between RAM and flash on
  purpose. `IInv` says, for each kind of call, what its remaining writes still
  have to make true (`CreateInv`, `UpdateInv`, `RemoveInv`), what every other
  note in RAM has on flash (`RamInv`), what backs every promise (`PromiseInv`),
  and how a cut id relates to the index (`CutInv`). There is a lemma for each
  shape of step: a creation, an update, a removal, an undo, each of the three
  blob writes, the index writes, and the boot. `CapacityIsKept` then needs only
  that `g_notes` grows in `Create`, which counted, and in `Boot`, which loads what
  the index names.
  `SplitsAreWhole` (`NamedWhole`) is about the step of `PersistIndex`: by `CreateInv`
  both blobs of a pair are on flash before the index that names either.
  `SecretsAreUnique` has a hypothesis, that an unreadable blob is not among the
  faults, because `OneNotePerSecret` fails with it (section 3). Its invariant
  (`UniqueInv`) says that RAM and the next boot hold no secret twice, that every
  note of the index is in RAM while the vault runs, and what a creation that has not
  been named yet adds. Failed and misreported writes are in it.
  `Refinement` is that `Spec` implies `Ledger`'s: from `IInv`, every step moves every
  note by one of the six changes of `Ledger`.
* **`ApprovalProofs`**: `TypeCorrect`, `GrantIsTheOwners`, `DenialIsTheOwners`,
  `PromptsEnd`. The
  flags of `approval_t` are summaries of what the polls saw, and the invariant
  says of what: `CancelSinceIs` (the first poll of the unbroken fresh press of
  cancel that the last poll ends), `HoldSinceIs` (the first poll of a fresh press
  of button 1 since which there was no release) and `ReleaseSinceIs` (the first
  poll of the gap the last poll is in). The verdict then reads the log.
* **`DispatcherProofs`** has the two parts of `dispatcher.c` that keep something from
  one request to the next. Of `Ota`: `Inductive`, `AlwaysBoots`, `SessionIsSound` (`SessionApproved`: a
  refused `ota_begin` leaves no session open), `DigestCoversTheSlot`,
  `OnlyVerifiedIsSelected`. The invariant says the running slot is never the target,
  that the session and its slot agree while it is open,
  and that between `esp_ota_end()` and the switch the target holds a signed image.
  Of `Listing`: `ListingsTell` (`PagesTellAll`, for limits and sizes of a size_t of any
  relation) and `WalksMissOnlyWhatMoved`.
  The first is about the arithmetic of a reply. `NotesAreWritten` and
  `BuildListingIs` show that the writer's length is the sum of what it was given and
  that it succeeds exactly when that sum is below `Cap`; `FewerFit` that a page with
  more behind it that fits still fits with fewer notes (the last page needs no
  `next_offset`, so it may fit where a shorter one does not: it is tried before the
  loop); `BisectEnds` that halving ends on a page that fits next to one that does not;
  and `Answers` puts these together into what `handle_list_notes()` decides. The second is an invariant of the
  walk (`WalkInv`): nothing ahead of the client was on a page yet (so no note is seen
  twice), and of the notes that stayed no more are behind it unseen than were removed,
  because a removal brings exactly one note over the place where the next page begins
  (`Removed`) and a page leaves none behind (`PageIsSeen`).
* **`BleLinkProofs`**: `TypeCorrect`, `CommandsAreWhole` (`Reassembly`: the
  half-received command is of the client that is connected; `Commands`: what is queued was of one),
  `TornTailsEnd` (`TornTailIsOnePiece`: `InOrder`: what is queued comes after
  every reply that was begun, so no other command's pieces bear its number; `Untorn`:
  of the reply in hand no piece past `sent` is out, and as long as `same_link()` holds
  after the first piece the client is the one that got the piece before;
  `LastOfItsReply`: a piece sent to another client closes its reply, because the
  next look at the link finds another generation), and
  `NoCommandIsForgotten` (`Counted`: each step that takes a command from the queue,
  drops it or sends the last piece of its reply moves exactly one unit from one term
  of the sum to another; a reply that was given up is charged to one counter only).
* **`TransportProofs`** has what the transports carry. Of `SerialLink`: `TypeCorrect`,
  `LinesAreAccountedFor`, `RepliesNeverSpliced`. What the host has of the current line and what is in the
  ring behind it are one chain of bytes; `serial_tx_task` goes on where the chain
  ends, or `needs_resync` is set and a newline comes before anything else, or the
  port has changed under it and it will not write again. The hard case is the
  write that was past its check when DTR moved: `ClearRing` comes after the
  generation, so the byte is either cleared or the newline before it stands.
  Of `Stream`: `CutsMakeNoDifference` (`PiecesDoNotMatter`), for streams, buffers and
  blocks of any size. The invariant (`StreamInv`) says that what each reader has in
  hand is a function of the bytes it was fed. `LineHolds`: the lines that ended,
  and of the line since the last line end as much as fits, with `overflowed` exactly
  when that is not all. `FrameSays`: there is a place in the stream that a message
  begins at, up to which everything was told, and the reader has a part of a header,
  a part of a payload, or the rest of a refusal of the message there (`InHeader`,
  `InPayload`, `InRefused`). Told means told for every later end of the stream
  (`Told`), so that a message that is cut is never claimed early; `FrameTells` then
  reads off what was handed on. `DigestAt`: all whole blocks were transformed and
  the rest is in the buffer. `PassSays`, `TopUpSays` and `WholeBlocksSays` are the
  steps; `FrameFeedSays` needs that a pass takes a byte at least. For
  `sha256_final()` the padded stream is one more stream, of which it feeds the pieces
  behind the data (`PaddingIs`, `ZerosNeededIs`: one number of zeros alone ends where
  the length fits), and `LastBlockIs` that no byte the buffer held before gets into
  the last block.
* **`BootProofs`**: `TypeCorrect` (the handle is open only while NVS is up, since no
  command runs, and no handle is open, before the boot has come to them: `Quiet`),
  `AcknowledgedNotesStay` and `WipedNotesStayAway` (RAM covers
  every promise while the vault may write, nothing is promised once a wipe is
  approved, and no index is on flash past the check, which is all the check is of:
  the blobs may be, and no boot reads one that the index does not name), `PinnedKeyIsShown` (the key
  served and the key shown are the one on flash, unless a wipe or a failed read
  excuses another), `CrumbIsTrue` (once booted, the crumb names the command in
  progress, and `g_last_cmd` the one before the reset).
* **`DeviceProofs`**: `TypeCorrect` (among others: the request queue never holds more
  than one question, by `QuestionInv`, and while a prompt is up `ui_task` has its
  request, `UiTypes`), `OneCommandAtATime` (each command past `cmd_lock` holds it, so
  no two are) and `SecretIsOfTheSelected` (`qr` is cleared, or set to the selected
  note, by every action that selects). `DestroyedAsShown` (`ActsAsShown`) follows the
  one question in flight through the request queue, the screen and the response
  queue (`QuestionInv`): it stays what would be read now (`UpToDate`), because only the
  holder of `cmd_lock` changes notes and the holder is the one that waits. `KeptKeeps`
  shows that moving the notes up loses and doubles none, so what an approved command
  destroys is what its question was about. `DisclosedAsShown` (`DisclosedIsShown`)
  follows the selected note (`PlaceInv`): between the tap, the drawing and the chord
  no reply is outstanding unless the owner's outcome card was outlasted (`overrun`),
  so nothing has moved the note away from `browse_index`.
  `ActsAsCustodian` is that `Spec` implies `Custodian`'s. Each action is one of its
  actions or none, by lemmas of their own (`AcquireIsTake`, `DispatchIsStep`,
  `AnswerIsDecide`, `AnsweredIsStep`, ...). `CustodyInv` adds what the holder of
  `cmd_lock` may be doing; `Waiting` reads the card off wherever the question is;
  `SheetIsQuestion` and `ActIsOutcome` relate the array of notes to the set of them,
  the number of spent places to the number of spent notes (`NotesAreDistinct`) among
  it. That a yes is obeyed only while the card is still true is `UpToDate` again.
* **`GesturesProofs`**: `TypeCorrect`, `SpentPressesStaySpent` (`PressInv`: what is down
  is unspent unless `consumed` is set, and that is reset only with nothing down),
  `SecretsComeDown` (`ModeInv` and `SecretInv`: while a secret is up the clock of the
  loop and that of the secret are one, and past the deadline a tap of button 1 can
  win it one poll only) and `GrantsAreHealthy` (a prompt is armed by seeing the
  button up, which the record saw too).

`Listing` and `Stream` are where induction over data is needed: a writer runs over a
page, a loop halves a range, the readers run over bytes and passes, all as recursive
functions. The library's induction theorems
take a predicate as a parameter, which the provers cannot instantiate; `UpTo` says the
same of a set of numbers instead, from the least number outside of it (`Least`, by
the theorem that a non-empty set has a minimal element). `RecursionExists`,
`BisectExists`, `SumExists`, `StepsExist` and `MessagesExist` first show that there is a function that satisfies
each recursive equation, which TLA+ does not grant.

Only model-checked: liveness (`NeverWedged`, `EveryLineIsSettled`,
`EveryCommandEnds`: temporal proofs under fairness need ENABLED, which the prover
does not do); and `CodecsAreExact` and `ShownIsWhatIs` of `Texts`, whose conversions
are declared RECURSIVE or work bit by bit, which the prover does not read. Every other
property of section 3's passing runs is a theorem.

## 5. Where the models abstract, and what the reader should know

* A BLE reply that stalls on a link that stays up is cut short and nothing tells
  the client where the next begins; `TornTailIsOnePiece` and `NoTornTail` are about
  pieces that go on from nothing, and let a reply end early. Serial has a repair for this (`proto/line_tx.c`), which
  is `RepliesAreContiguous`.
* BLE's `on_reset()` comes after the stack reported the disconnect and assigns
  what that has assigned; the over-long write in `rx_chr_access()` is defensive.
  Neither is modelled.
* `approval_poll()` withholds a completed hold while a cancel press is being
  debounced and comments that, if that was bounce, "the very next tick can grant"
  (`proto/approval.c:68-69`). A deadline that falls in that time ends the prompt
  as expired first (`proto/approval.c:91-100`), since a hold that is complete is no
  longer finishing. The grant is lost, never given wrongly: `GrantedIsHeld` holds.
* `dispatcher.h:41`, `79` and `180` say that a hook left NULL means "always
  allow"; the handlers refuse. The models have the handlers' behaviour.
* `main.c:229-231` says that a discard may race the wait for the owner;
  `cmd_lock` prevents a second command in that time, which `SourceIsCaller`
  states. The re-check by id is still modelled (`Act`).
* In `Device` a vault call is one step and cannot fail half-way: that is `Vault`.
  In `Boot` it is one step too, and `new_secret` stands for all that write.
* `CrumbNamesWhatDidNotReturn` says nothing of a reset that falls between a power
  cycle and `crash_crumb_boot()`, the first call of `app_main`: RTC memory is noise
  then, and a second reset would be told by it (`fell` is "unread").
* In `Boot` a host that pinned a key over a failed read is told another one at the
  next boot that can read: the code keeps what flash says, and so does the
  property.
* After a wipe that failed half-way `get_info` may still call storage "ok" while
  the handle is closed, and until the reboot an ok wipe is followed by, the old
  identity is served from RAM.
* In `Gestures` one poll is the debounce time to the microsecond (30 ms each), so
  whether a press of one poll counts is left open (`LongEnough`). A button that is
  stuck keeps `consumed` set, and the other then does nothing either.
* With a limit of 0 and notes left the next page begins where this one does
  (`proto/dispatcher.c:387-388`): a client that only follows `next_offset` gets nowhere.
  `PagesTellAll` says so; `docs/PROTOCOL.md:351` promises only the `total`.
* In `Listing` a note that moves from the next page to one already read, because
  another was removed, is missed by the client: paging is by offset.
  `WalkMissesOnlyWhatMoved` counts those, and does not call it wrong.
* `grouped()` drops leading digits when its buffer is too small for them; every
  caller's is large enough (`AmountBuf`).
* The periodic recount of the idle screen takes `vault_lock` only if it is free at
  once, and draws a number; it is not modelled.

## 6. How the project grew

The order was the order of what can be lost: the vault and its ledger first, then
the approval in front of every disclosure, updates, the transport with the least
protection, the composition of tasks, locks and boot; then what outlives a boot
and a wipe, the serial link, the buttons, the readers and conversions, and the
pages of a listing; and last the custodian that all of it amounts to.

## 7. Not modelled

* **Entropy** (`vault/entropy.c`): health tests over the random generator, run once
  at boot and ending in `abort()`, which is a reset in `Boot`.
* **Vendored cryptography** (`ota/monocypher*.c`): third-party code used
  as is. Signatures, HMAC and the rounds of SHA-256 are what they decide; which
  bytes they are given is in `Digest` and `Ota`.
* **Boards, panel driver, fonts, colours and layout**: no component reads them
  back. Which QR and which amount is drawn is in `QrCode` and `Numbers`.
* **Reading of arguments** but for its limits: `dispatcher.c` refuses a malformed
  command before it has done anything; the depth guard and the integer reader,
  which decide what is malformed at a boundary, are in `Numbers`.
* **Commands that only report** (`get_info` but for its storage state,
  `export_pubkey`): they change nothing and disclose nothing that is gated.
