------------------------------- MODULE Vault -------------------------------
(***************************************************************************)
(* The note ledger of src/src/vault/vault.c over the NVS partition of      *)
(* src/src/storage/nvs_storage.c.                                          *)
(*                                                                         *)
(* A vault call changes RAM first and then makes its flash writes one by   *)
(* one.  The call in progress is the variable op: each flash write is a    *)
(* step of its own, so that every write can fail and power can go between  *)
(* any two of them.  No other vault call runs meanwhile (cmd_lock and      *)
(* vault_lock; module Device models those).                                *)
(***************************************************************************)
EXTENDS Naturals, FiniteSets

CONSTANTS
    Ids,        \* note ids, 8 hex digits in the code
    Secrets,    \* note secrets, 32 bytes in the code
    Metas,      \* what confirm and rename rewrite: amount, host, sig, label
    NoNote,     \* "no such note": in RAM, or as a blob on flash
    MaxNotes,   \* VAULT_MAX_NOTES
    Faults      \* which of the faults below this instance exhibits

(***************************************************************************)
(* power    power lost, or a panic, between any two steps                  *)
(* index    the index cannot be read at a boot                             *)
(* blob     a blob that is on flash cannot be read at a boot               *)
(* write    a flash write fails and leaves flash as it was                 *)
(* commit   nvs_set_blob took effect but nvs_commit reports failure        *)
(***************************************************************************)
AllFaults == {"power", "index", "blob", "write", "commit"}

NoteState == {"pending", "confirmed", "spent"}
Note == [secret: Secrets, state: NoteState, meta: Metas]

ASSUME VaultAssumption ==
    /\ NoNote \notin Note
    /\ MaxNotes \in Nat \ {0}
    /\ Faults \subseteq AllFaults
    /\ IsFiniteSet(Ids)

VARIABLES
    notes,        \* g_notes: the notes held in RAM, by id
    unloaded,     \* g_unloaded_ids: indexed at boot, blob not readable
    indexKnown,   \* g_index_known
    blobs,        \* flash: the blob stored under each id
    index,        \* flash: the ids the blob "index" names
    op,           \* the vault call in progress
    promise,      \* history: what an ok reply last told the host of each id
    cut           \* history: unloaded ids left out of a full index

ram == <<notes, unloaded, indexKnown>>
flash == <<blobs, index>>
vars == <<ram, flash, op, promise, cut>>

(***************************************************************************)
(* subj: the notes the call is about; todo: those whose blob it has still  *)
(* to write or delete; old: the snapshot an update restores on failure;    *)
(* ok: no delete has failed so far.                                        *)
(***************************************************************************)
OpKind == {"idle", "create", "undo", "update", "remove"}
Op == [kind: OpKind, subj: SUBSET Ids, todo: SUBSET Ids,
       old: Note \cup {NoNote}, ok: BOOLEAN]

Call(k, S, n) == [kind |-> k, subj |-> S, todo |-> S, old |-> n, ok |-> TRUE]
Idle == Call("idle", {}, NoNote)

\* "none": no ok reply owes the host anything about this id;
\* "gone": an ok reply said that the note was removed.
Promise == NoteState \cup {"none", "gone"}

TypeOK ==
    /\ notes \in [Ids -> Note \cup {NoNote}]
    /\ unloaded \subseteq Ids
    /\ indexKnown \in BOOLEAN
    /\ blobs \in [Ids -> Note \cup {NoNote}]
    /\ index \subseteq Ids
    /\ op \in Op
    /\ promise \in [Ids -> Promise]
    /\ cut \subseteq Ids

Held == {id \in Ids : notes[id] # NoNote}
InState(s) == {id \in Held : notes[id].state = s}
Forgotten(S) == [id \in Ids |-> IF id \in S THEN NoNote ELSE notes[id]]
Released(S) == [id \in Ids |-> IF id \in S THEN "none" ELSE promise[id]]

-----------------------------------------------------------------------------
(***************************************************************************)
(* Creating notes.  32-bit ids and 256-bit secrets are drawn from the RNG: *)
(* gen_unique_id retries an id held in RAM, and the draw is assumed not to *)
(* repeat an id flash still names, nor a secret flash still holds.         *)
(***************************************************************************)
FreshId(id) == id \notin Held \cup unloaded \cup index \cup cut
FreshSecret(s) == \A id \in Ids : /\ notes[id] # NoNote => notes[id].secret # s
                                  /\ blobs[id] # NoNote => blobs[id].secret # s

\* Mutant: no gate on an index that could not be read.
CanCreateAnyway(n) == op = Idle /\ Cardinality(Held) + n <= MaxNotes

\* new_note(): refused while the index is unknown or the array is full.
CanCreate(n) == /\ op = Idle
                /\ indexKnown
                /\ Cardinality(Held) + n <= MaxNotes

Create(new) ==
    /\ notes' = [id \in Ids |-> IF id \in DOMAIN new THEN new[id] ELSE notes[id]]
    /\ op' = Call("create", DOMAIN new, NoNote)
    /\ promise' = Released(DOMAIN new)
    /\ UNCHANGED <<unloaded, indexKnown, flash, cut>>

NewNote(s, st, m) == [secret |-> s, state |-> st, meta |-> m]

NewSecret(id, s, m) ==
    /\ CanCreate(1)
    /\ FreshId(id) /\ FreshSecret(s)
    /\ Create([i \in {id} |-> NewNote(s, "pending", m)])

NewSecretPair(id1, id2, s1, s2, m) ==
    /\ CanCreate(2)
    /\ id1 # id2 /\ FreshId(id1) /\ FreshId(id2)
    /\ s1 # s2 /\ FreshSecret(s1) /\ FreshSecret(s2)
    /\ Create([i \in {id1, id2} |-> NewNote(IF i = id1 THEN s1 ELSE s2, "pending", m)])

\* Mutant: no search for a note that has this secret already.
ImportSecretUnchecked(id, s, m) ==
    /\ CanCreate(1)
    /\ FreshId(id)
    /\ Create([i \in {id} |-> NewNote(s, "confirmed", m)])

\* The host chose the secret: it may be one the vault holds, or held once.
ImportSecret(id, s, m) ==
    /\ CanCreate(1)
    /\ \A i \in Held : notes[i].secret # s
    /\ FreshId(id)
    /\ Create([i \in {id} |-> NewNote(s, "confirmed", m)])

\* A secret already in RAM: ok with the id of the note that has it, which is
\* how a host retries an import whose reply it lost.  Nothing else changes.
ImportSecretAgain(id) ==
    /\ CanCreate(1)
    /\ id \in Held
    /\ promise' = [promise EXCEPT ![id] = notes[id].state]
    /\ UNCHANGED <<ram, flash, op, cut>>

-----------------------------------------------------------------------------
(***************************************************************************)
(* Changing and removing notes.                                            *)
(***************************************************************************)
Update(id, n) ==
    /\ notes' = [notes EXCEPT ![id] = n]
    /\ op' = Call("update", {id}, notes[id])
    /\ UNCHANGED <<unloaded, indexKnown, flash, promise, cut>>

Confirm(id, m) ==
    /\ op = Idle /\ id \in InState("pending")
    /\ Update(id, [notes[id] EXCEPT !.state = "confirmed", !.meta = m])

MarkSpent(id) ==
    /\ op = Idle /\ id \in InState("confirmed")
    /\ Update(id, [notes[id] EXCEPT !.state = "spent"])

Rename(id, m) ==
    /\ op = Idle /\ id \in Held
    /\ Update(id, [notes[id] EXCEPT !.meta = m])

\* remove_at(): the host asked for the notes to go, so whatever becomes of
\* the writes the device no longer owes them.
Remove(S) ==
    /\ notes' = Forgotten(S)
    /\ op' = Call("remove", S, NoNote)
    /\ promise' = Released(S)
    /\ UNCHANGED <<unloaded, indexKnown, flash, cut>>

\* Mutants: delete a note in whatever state; sweep unreadable notes too.
DeleteAny(id) == op = Idle /\ id \in Held /\ Remove({id})
PruneSpentAndUnloaded ==
    /\ op = Idle /\ indexKnown
    /\ InState("spent") # {}
    /\ Remove(InState("spent") \cup unloaded)

Discard(id) == op = Idle /\ id \in InState("pending") /\ Remove({id})
Delete(id) == op = Idle /\ id \in InState("spent") /\ Remove({id})

PruneSpent ==
    /\ op = Idle /\ indexKnown
    /\ InState("spent") # {}
    /\ Remove(InState("spent"))

\* vault_export_secret() reads and writes nothing: what it would disclose.
Exportable == InState("confirmed")

-----------------------------------------------------------------------------
(***************************************************************************)
(* The flash writes of the call in progress.                               *)
(***************************************************************************)
\* What a flash write reports and whether it took effect.
Outcome == {o \in [ok: BOOLEAN, done: BOOLEAN] :
               /\ o.ok => o.done
               /\ ~o.ok /\ ~o.done => "write" \in Faults
               /\ ~o.ok /\ o.done => "commit" \in Faults}

\* A note that did not reach flash is taken out of RAM and off flash again.
UndoCreate ==
    /\ notes' = Forgotten(op.subj)
    /\ op' = Call("undo", op.subj, NoNote)
    /\ UNCHANGED promise

\* persist_note() for one of the notes being created.
SaveNewNote(id, o) ==
    /\ op.kind = "create" /\ id \in op.todo
    /\ blobs' = IF o.done THEN [blobs EXCEPT ![id] = notes[id]] ELSE blobs
    /\ \/ /\ o.ok
          /\ op' = [op EXCEPT !.todo = @ \ {id}]
          /\ UNCHANGED <<notes, promise>>
       \/ ~o.ok /\ UndoCreate
    /\ UNCHANGED <<unloaded, indexKnown, index, cut>>

\* Mutants: a failed write answered ok; a failed write whose snapshot is not
\* put back in RAM.
SaveUpdateUnheard(id, o) ==
    /\ op.kind = "update" /\ id \in op.todo
    /\ blobs' = IF o.done THEN [blobs EXCEPT ![id] = notes[id]] ELSE blobs
    /\ promise' = [promise EXCEPT ![id] = notes[id].state]
    /\ op' = Idle
    /\ UNCHANGED <<ram, index, cut>>

SaveUpdateNoRestore(id, o) ==
    /\ op.kind = "update" /\ id \in op.todo
    /\ blobs' = IF o.done THEN [blobs EXCEPT ![id] = notes[id]] ELSE blobs
    /\ promise' = IF o.ok THEN [promise EXCEPT ![id] = notes[id].state] ELSE promise
    /\ op' = Idle
    /\ UNCHANGED <<ram, index, cut>>

\* persist_note() of confirm, mark_spent and rename, and the reply.
SaveUpdate(id, o) ==
    /\ op.kind = "update" /\ id \in op.todo
    /\ blobs' = IF o.done THEN [blobs EXCEPT ![id] = notes[id]] ELSE blobs
    /\ \/ /\ o.ok
          /\ promise' = [promise EXCEPT ![id] = notes[id].state]
          /\ UNCHANGED notes
       \/ /\ ~o.ok
          /\ notes' = [notes EXCEPT ![id] = op.old]
          /\ UNCHANGED promise
    /\ op' = Idle
    /\ UNCHANGED <<unloaded, indexKnown, index, cut>>

\* Mutant: the result of the delete is dropped.
DeleteBlobUnheard(id, o) ==
    /\ op.kind \in {"undo", "remove"} /\ id \in op.todo
    /\ blobs' = IF o.done THEN [blobs EXCEPT ![id] = NoNote] ELSE blobs
    /\ op' = [op EXCEPT !.todo = @ \ {id}]
    /\ UNCHANGED <<ram, index, promise, cut>>

DeleteBlob(id, o) ==
    /\ op.kind \in {"undo", "remove"} /\ id \in op.todo
    /\ blobs' = IF o.done THEN [blobs EXCEPT ![id] = NoNote] ELSE blobs
    /\ op' = [op EXCEPT !.todo = @ \ {id}, !.ok = @ /\ o.ok]
    /\ UNCHANGED <<ram, index, promise, cut>>

\* Mutant: every unloaded id is carried over, whatever the array holds.
IndexImageAll(kept) == kept = unloaded

\* persist_index(): the ids in RAM, then the unloaded ones as far as the
\* array of MaxNotes entries has room.  Which are cut depends on their order,
\* left open here.
IndexImage(kept) ==
    /\ kept \subseteq unloaded
    /\ Cardinality(Held \cup kept) <= MaxNotes
    /\ kept = unloaded \/ Cardinality(Held \cup kept) = MaxNotes

\* Mutant: the index is written while notes are still to be.
PersistIndexFirst(kept, o) ==
    /\ IF indexKnown THEN IndexImage(kept) ELSE kept = {} /\ o.ok
    /\ index' = IF indexKnown /\ o.done THEN Held \cup kept ELSE index
    /\ cut' = IF indexKnown /\ o.done THEN (cut \cup unloaded) \ (Held \cup kept) ELSE cut
    /\ UNCHANGED <<unloaded, indexKnown, blobs>>

PersistIndex(kept, o) ==
    /\ op.todo = {}
    /\ IF indexKnown THEN IndexImage(kept) ELSE kept = {} /\ o.ok
    /\ index' = IF indexKnown /\ o.done THEN Held \cup kept ELSE index
    /\ cut' = IF indexKnown /\ o.done THEN (cut \cup unloaded) \ (Held \cup kept) ELSE cut
    /\ UNCHANGED <<unloaded, indexKnown, blobs>>

\* The last write of a creation, and the reply with the id or the hash.
IndexCreated(kept, o) ==
    /\ op.kind = "create"
    /\ PersistIndex(kept, o)
    /\ \/ /\ o.ok
          /\ op' = Idle
          /\ promise' = [id \in Ids |-> IF id \in op.subj THEN notes[id].state
                                        ELSE promise[id]]
          /\ UNCHANGED notes
       \/ ~o.ok /\ UndoCreate

\* After an undo the reply is storage_full whatever the write reports.
IndexUndone(kept, o) ==
    /\ op.kind = "undo"
    /\ PersistIndex(kept, o)
    /\ op' = Idle
    /\ UNCHANGED <<notes, promise>>

IndexRemoved(kept, o) ==
    /\ op.kind = "remove"
    /\ PersistIndex(kept, o)
    /\ op' = Idle
    /\ promise' = [id \in Ids |-> IF id \in op.subj /\ op.ok /\ o.ok THEN "gone"
                                  ELSE promise[id]]
    /\ UNCHANGED notes

-----------------------------------------------------------------------------
(***************************************************************************)
(* vault_init(): a boot reads the index, then every blob it names.  It     *)
(* happens between calls (reset, a power cycle) or in the middle of one.   *)
(* A boot without storage looks like one that cannot read the index.       *)
(***************************************************************************)
Boot(readable, bad) ==
    /\ op # Idle => "power" \in Faults
    /\ ~readable => "index" \in Faults /\ bad = {}
    /\ bad # {} => "blob" \in Faults
    /\ indexKnown' = readable
    /\ notes' = [id \in Ids |-> IF readable /\ id \in index \ bad THEN blobs[id]
                                ELSE NoNote]
    /\ unloaded' = IF readable THEN {id \in index : id \in bad \/ blobs[id] = NoNote}
                   ELSE {}
    /\ op' = Idle
    /\ UNCHANGED <<flash, promise, cut>>

Init ==
    /\ notes = [id \in Ids |-> NoNote] /\ unloaded = {} /\ indexKnown = TRUE
    /\ blobs = [id \in Ids |-> NoNote] /\ index = {}
    /\ op = Idle
    /\ promise = [id \in Ids |-> "none"] /\ cut = {}

Request ==
    \/ \E id \in Ids, s \in Secrets, m \in Metas :
          NewSecret(id, s, m) \/ ImportSecret(id, s, m)
    \/ \E id1, id2 \in Ids, s1, s2 \in Secrets, m \in Metas :
          NewSecretPair(id1, id2, s1, s2, m)
    \/ \E id \in Ids, m \in Metas : Confirm(id, m) \/ Rename(id, m)
    \/ \E id \in Ids : ImportSecretAgain(id) \/ MarkSpent(id) \/ Discard(id) \/ Delete(id)
    \/ PruneSpent

FlashWrite ==
    \E o \in Outcome :
        \/ \E id \in Ids : SaveNewNote(id, o) \/ SaveUpdate(id, o) \/ DeleteBlob(id, o)
        \/ \E kept \in SUBSET Ids :
              IndexCreated(kept, o) \/ IndexUndone(kept, o) \/ IndexRemoved(kept, o)

Restart == \E readable \in BOOLEAN, bad \in SUBSET index : Boot(readable, bad)

Next == Request \/ FlashWrite \/ Restart

Spec == Init /\ [][Next]_vars

-----------------------------------------------------------------------------
(***************************************************************************)
(* Properties.                                                             *)
(***************************************************************************)
\* State t is s or a later one.
AtLeast(t, s) == s = "pending" \/ t = s \/ t = "spent"

\* A note the host was told the vault holds is named by the index, and its
\* blob is in the state acknowledged or a later one, whatever failed or lost
\* power since; unless a full index left no room for it while unreadable.
AcknowledgedSurvives ==
    \A id \in Ids : promise[id] \in NoteState /\ id \notin cut =>
        id \in index /\ blobs[id] # NoNote /\ AtLeast(blobs[id].state, promise[id])

\* A removal answered ok (discard, delete, prune_spent) left neither a blob
\* nor an index entry that a later boot could bring the note back from.
RemovedStaysRemoved ==
    \A id \in Ids : promise[id] = "gone" => id \notin index /\ blobs[id] = NoNote

\* A note acknowledged as spent is never again one export_secret hands out.
SpentIsNotExportable == \A id \in Exportable : promise[id] # "spent"

\* Between calls every note in RAM is one the next boot finds, with the same
\* secret; and, unless a commit misreported, exactly as RAM has it.
RamMatchesFlash ==
    op = Idle => \A id \in Held :
        /\ id \in index /\ blobs[id] # NoNote
        /\ blobs[id].secret = notes[id].secret
        /\ AtLeast(blobs[id].state, notes[id].state)
        /\ "commit" \notin Faults => blobs[id] = notes[id]

\* g_notes and the index blob have room for MaxNotes entries, and a boot that
\* could not read the index holds no note and runs no call.
WithinCapacity ==
    /\ Cardinality(Held) <= MaxNotes /\ Cardinality(index) <= MaxNotes
    /\ ~indexKnown => Held = {} /\ op = Idle

\* Two notes the next boot loads never have one secret.
OneNotePerSecret ==
    \A i, j \in index : i # j /\ blobs[i] # NoNote /\ blobs[j] # NoNote =>
        blobs[i].secret # blobs[j].secret

\* Both halves of a split or neither: what a boot would come to find by a new
\* entry of the index is every note of one creation, whole; or an unreadable
\* note that a full index had left out.
NamedWhole ==
    [][\A id \in index' \ index :
          \/ id \in cut
          \/ /\ op.kind = "create" /\ id \in op.subj
             /\ \A i \in op.subj : i \in index' /\ blobs'[i] = notes[i]]_vars

\* No call touches the blob of a note this boot could not read.
UnloadedUntouched ==
    [][\A id \in unloaded \cap unloaded' : blobs'[id] = blobs[id]]_vars

\* Seen as a Ledger: what the next boot can load, and what was acknowledged.
Durable == [id \in Ids |-> IF id \in index /\ blobs[id] # NoNote
                           THEN blobs[id].state ELSE "absent"]
L == INSTANCE Ledger WITH durable <- Durable
ImplementsLedger == L!Spec

\* persist_index() comments that a note is only ever removed from the index
\* deliberately: no acknowledged note is left out of it.
OnlyRemovedDeliberately == \A id \in cut : promise[id] \notin NoteState
=============================================================================
