-------------------------------- MODULE Ota --------------------------------
(***************************************************************************)
(* Firmware updates: the session of src/src/proto/dispatcher.c, the writes *)
(* of src/src/ota/ota.c, and the two app slots of partitions.csv with the  *)
(* boot choice of ESP-IDF, as those two files use them.                    *)
(*                                                                         *)
(* An image is the sequence of its chunks and stands for its own digest; a *)
(* signature is the image it was made for.  ota.c's g_active is true       *)
(* exactly when the session is, so it is no variable of its own.           *)
(***************************************************************************)
EXTENDS Naturals, Sequences

CONSTANTS
    Chunks,     \* what one ota_chunk carries, 1 to 1024 bytes in the code
    Images,     \* the contents of a slot that the bootloader will start
    Signed,     \* the images the release key signed
    Factory,    \* the image flashed over USB when the device was made
    MaxSize     \* OTA_MAX_SIZE, in chunks

ASSUME OtaAssumption ==
    /\ Signed \subseteq Images
    /\ Images \subseteq Seq(Chunks)
    /\ Factory \in Images
    /\ MaxSize \in Nat

VARIABLES
    session,    \* g_ota
    asked,      \* the ota_begin whose approval the owner is being asked for
    answer,     \* history: how the latest ota_begin ended
    slots,      \* what each of ota_0 and ota_1 holds
    boot,       \* the slot otadata selects
    running,    \* the slot the running firmware was started from
    rebootDue   \* device_reboot_delayed() has started its timer

vars == <<session, asked, answer, slots, boot, running, rebootDue>>

Slot == {0, 1}
Image == Seq(Chunks)

\* What the host sends with ota_begin; only the claim is signed, not the size.
Begin == [size: 1..MaxSize, claim: Images, sig: Images]

\* ended: ota_write_finish() is past esp_ota_end().
Session == [active: BOOLEAN, size: 0..MaxSize, sig: Images, received: Image,
            ended: BOOLEAN]

NoSession == [active |-> FALSE, size |-> 0, sig |-> Factory, received |-> <<>>,
              ended |-> FALSE]
NotAsked == [size |-> 0]

TypeOK ==
    /\ session \in Session /\ Len(session.received) <= session.size
    /\ asked \in Begin \cup {NotAsked}
    /\ answer \in {"none", "yes", "no"}
    /\ slots \in [Slot -> Image]
    /\ boot \in Slot /\ running \in Slot
    /\ rebootDue \in BOOLEAN

\* ota_verify_signature()
Verified(digest, sig) == digest = sig /\ digest \in Signed

\* Mutant: the slot after the one selected for boot.
TargetByBoot == 1 - boot

\* esp_ota_get_next_update_partition(NULL): the slot not running.
Target == 1 - running

\* cmd_lock: no command is handled while another one waits for the owner.
Ready == asked = NotAsked /\ ~session.ended

\* ota_abort_session(), which no slot and no boot choice hears of.
Abort == session' = NoSession

-----------------------------------------------------------------------------
\* handle_ota_begin() up to the owner.
OtaBegin(r) ==
    /\ Ready
    /\ Abort
    /\ asked' = IF Verified(r.claim, r.sig) THEN r ELSE NotAsked
    /\ answer' = IF Verified(r.claim, r.sig) THEN "none" ELSE "no"
    /\ UNCHANGED <<slots, boot, running, rebootDue>>

\* The owner declines, does not answer, or cannot be shown the question.
Refused ==
    /\ asked # NotAsked
    /\ asked' = NotAsked /\ answer' = "no"
    /\ UNCHANGED <<session, slots, boot, running, rebootDue>>

Erased == [slots EXCEPT ![Target] = <<>>]

\* The owner approves; esp_ota_begin() erases the slot, or fails part-way.
Approved(ok) ==
    /\ asked # NotAsked
    /\ asked' = NotAsked /\ answer' = "yes"
    /\ IF ok THEN /\ slots' = Erased
                  /\ session' = [active |-> TRUE, size |-> asked.size, sig |-> asked.sig,
                                 received |-> <<>>, ended |-> FALSE]
             ELSE slots' \in {slots, Erased} /\ UNCHANGED session
    /\ UNCHANGED <<boot, running, rebootDue>>

Written(d) == [slots EXCEPT ![Target] = Append(@, d)]

\* Mutants: no check of the declared size; a failed flash write that does
\* not end the session.
OtaChunkUnbounded(d) ==
    /\ Ready /\ session.active
    /\ session' = [session EXCEPT !.received = Append(@, d)]
    /\ slots' = Written(d)
    /\ UNCHANGED <<asked, answer, boot, running, rebootDue>>

OtaChunkUnheard(d) ==
    /\ Ready /\ session.active
    /\ Len(session.received) < session.size
    /\ session' = [session EXCEPT !.received = Append(@, d)]
    /\ slots' \in {slots, Written(d)}
    /\ UNCHANGED <<asked, answer, boot, running, rebootDue>>

\* handle_ota_chunk() at the expected offset; at any other it changes nothing.
OtaChunk(d) ==
    /\ Ready /\ session.active
    /\ Len(session.received) < session.size
    /\ \/ /\ session' = [session EXCEPT !.received = Append(@, d)]
          /\ slots' = Written(d)
       \/ Abort /\ slots' \in {slots, Written(d)}
    /\ UNCHANGED <<asked, answer, boot, running, rebootDue>>

OtaChunkTooMuch ==
    /\ Ready /\ session.active
    /\ Len(session.received) = session.size
    /\ Abort
    /\ UNCHANGED <<asked, answer, slots, boot, running, rebootDue>>

\* Mutant: the digest claimed at ota_begin is trusted at ota_finish.
FinishableAsClaimed == Len(session.received) = session.size

\* The digest of what was written is verified, not the one claimed.
Finishable == /\ Len(session.received) = session.size
              /\ Verified(session.received, session.sig)

\* handle_ota_finish() as far as esp_ota_end(), which checks that the slot
\* holds an image the bootloader will start.
OtaFinish ==
    /\ Ready /\ session.active
    /\ \/ /\ Finishable
          /\ slots[Target] \in Images
          /\ session' = [session EXCEPT !.ended = TRUE]
       \/ Abort
    /\ UNCHANGED <<asked, answer, slots, boot, running, rebootDue>>

\* esp_ota_set_boot_partition() and the reboot; otadata may not be writable.
SelectSlot(ok) ==
    /\ session.ended
    /\ Abort
    /\ IF ok THEN boot' = Target /\ rebootDue' = TRUE ELSE UNCHANGED <<boot, rebootDue>>
    /\ UNCHANGED <<asked, answer, slots, running>>

\* handle_reset(), over the wire.
Reset ==
    /\ Ready
    /\ rebootDue' = TRUE
    /\ UNCHANGED <<session, asked, answer, slots, boot, running>>

\* The bootloader starts the selected slot, or the other one if it cannot.
Started == IF slots[boot] \in Images THEN boot ELSE 1 - boot

\* The timer runs out, ten seconds after it was started, or power is lost:
\* both whatever the command in progress.
Restart ==
    /\ running' = Started
    /\ Abort
    /\ asked' = NotAsked /\ answer' = "none" /\ rebootDue' = FALSE
    /\ UNCHANGED <<slots, boot>>

Init ==
    /\ session = NoSession /\ asked = NotAsked /\ answer = "none"
    /\ slots = [s \in Slot |-> IF s = 0 THEN Factory ELSE <<>>]
    /\ boot = 0 /\ running = 0
    /\ rebootDue = FALSE

Next ==
    \/ \E r \in Begin : OtaBegin(r)
    \/ Refused
    \/ \E ok \in BOOLEAN : Approved(ok)
    \/ \E d \in Chunks : OtaChunk(d)
    \/ OtaChunkTooMuch
    \/ OtaFinish
    \/ \E ok \in BOOLEAN : SelectSlot(ok)
    \/ Reset
    \/ Restart

Spec == Init /\ [][Next]_vars

-----------------------------------------------------------------------------
(***************************************************************************)
(* Properties.                                                             *)
(***************************************************************************)
\* Whenever power goes, there is an image to start: the running firmware's
\* slot holds a whole image through every update, finished or not.
StillBoots == slots[running] \in Images

\* A session is open only if the owner approved the latest ota_begin: a
\* refused one does not leave the session before it to be written to.
SessionApproved == session.active => answer = "yes"

\* What ota_finish verifies is what the slot holds: bytes that did not reach
\* flash are never in the digest.
DigestIsOfFlash == session.active => slots[Target] = session.received

\* The device is only ever pointed at a slot holding an image that the
\* release key signed, for an update that the owner approved.
BootIsSwitchedWhenVerified ==
    [][boot' # boot => slots'[boot'] \in Signed /\ answer = "yes"]_vars

\* docs/PROTOCOL.md: after ota_finish the device reboots into the new image.
\* The slot it selected is still whole when the reboot comes.
SelectedSlotIsWhole == slots[boot] \in Images
=============================================================================
