----------------------------- MODULE VaultProofs -----------------------------
(***************************************************************************)
(* Proofs about Vault, for any number of ids, secrets and notes and any    *)
(* combination of faults.                                                  *)
(***************************************************************************)
EXTENDS Vault, FiniteSetTheorems, TLAPS

\* A note fit to stand for one acknowledged in state s.
Backs(n, s) == n # NoNote /\ AtLeast(n.state, s)

(***************************************************************************)
(* The inductive invariant.  OpInv says what each kind of call has done to *)
(* RAM and flash so far; the rest relates RAM, flash and promises.         *)
(***************************************************************************)
CreateInv ==
    op.kind = "create" =>
        /\ op.old = NoNote
        /\ \A id \in op.subj : /\ notes[id] # NoNote /\ promise[id] = "none"
                               /\ id \notin unloaded \cup cut
                               /\ id \notin op.todo => blobs[id] = notes[id]

UpdateInv ==
    op.kind = "update" =>
        /\ op.old # NoNote
        /\ \A id \in op.subj :
              /\ op.subj = {id} /\ id \in op.todo
              /\ notes[id] # NoNote /\ notes[id].secret = op.old.secret
              /\ AtLeast(notes[id].state, op.old.state)
              /\ Backs(blobs[id], op.old.state) /\ blobs[id].secret = op.old.secret
              /\ "commit" \notin Faults => blobs[id] = op.old
              /\ promise[id] \in NoteState => AtLeast(op.old.state, promise[id])

RemoveInv ==
    op.kind \in {"undo", "remove"} =>
        \A id \in op.subj : /\ notes[id] = NoNote /\ promise[id] = "none"
                            /\ id \notin unloaded \cup cut
                            /\ id \notin op.todo /\ op.ok => blobs[id] = NoNote

OpInv ==
    /\ op.todo \subseteq op.subj
    /\ op.kind = "idle" => op = Idle
    /\ op.kind # "idle" => indexKnown
    /\ CreateInv /\ UpdateInv /\ RemoveInv

\* Every note in RAM but those being created is on flash, as far as known.
RamInv ==
    \A id \in Held :
        /\ indexKnown /\ id \notin unloaded \cup cut
        /\ promise[id] # "gone"
        /\ promise[id] \in NoteState => AtLeast(notes[id].state, promise[id])
        /\ ~(op.kind = "create" /\ id \in op.subj) => id \in index
        /\ id \notin op.subj =>
              /\ Backs(blobs[id], notes[id].state)
              /\ blobs[id].secret = notes[id].secret
              /\ "commit" \notin Faults => blobs[id] = notes[id]

PromiseInv ==
    \A id \in Ids :
        /\ promise[id] \in NoteState =>
              /\ Backs(blobs[id], promise[id])
              /\ id \notin cut => id \in index
              /\ id \notin cut /\ indexKnown => id \in Held \cup unloaded
        /\ promise[id] = "gone" => /\ id \notin index \cup unloaded
                                   /\ blobs[id] = NoNote

CutInv == cut \cap index = {} /\ unloaded \subseteq index \cup cut

IInv == TypeOK /\ OpInv /\ RamInv /\ PromiseInv /\ CutInv

-----------------------------------------------------------------------------
USE DEF NoteState, Note, AtLeast, Backs

\* Idle is a value of op.
LEMMA IdleType == /\ Idle \in Op /\ Idle.kind = "idle"
                  /\ Idle.subj = {} /\ Idle.todo = {} /\ Idle.old = NoNote
  BY DEF Idle, Call, Op, OpKind

\* The initial state: nothing in RAM, on flash or promised.
LEMMA InitInv == Init => IInv
<1> SUFFICES ASSUME Init PROVE IInv
  OBVIOUS
<1> USE DEF Init
<1>1. TypeOK
  BY IdleType DEF TypeOK, Promise
<1>2. OpInv /\ RamInv
  BY IdleType DEF OpInv, CreateInv, UpdateInv, RemoveInv, RamInv, Held
<1>3. PromiseInv /\ CutInv
  BY DEF PromiseInv, CutInv
<1>4. QED
  BY <1>1, <1>2, <1>3 DEF IInv

\* new_secret, new_secret_pair and import_secret put fresh notes in RAM.
LEMMA CreateStep ==
    ASSUME IInv, op = Idle, indexKnown,
           NEW S \in SUBSET Ids, NEW new \in [S -> Note],
           \A id \in S : FreshId(id),
           Create(new)
    PROVE  IInv'
<1> USE VaultAssumption DEF VaultAssumption, Create, FreshId
<1>0. DOMAIN new = S
  OBVIOUS
<1>1. op' \in Op /\ op'.kind = "create" /\ op'.subj = S /\ op'.todo = S /\ op'.old = NoNote
  BY <1>0 DEF OpKind, Call, Op
<1>2. \A id \in Ids : id \in S => /\ notes'[id] \in Note /\ promise'[id] = "none"
                                  /\ id \notin Held \cup unloaded \cup index \cup cut
  BY <1>0 DEF IInv, TypeOK, Released
<1>3. \A id \in Ids \ S : notes'[id] = notes[id] /\ promise'[id] = promise[id]
  BY <1>0 DEF IInv, TypeOK, Released
<1>4. TypeOK'
  BY <1>0, <1>1 DEF IInv, TypeOK, Released, Promise, flash
<1>5. OpInv'
  BY <1>1, <1>2 DEF OpInv, CreateInv, UpdateInv, RemoveInv, flash
<1>6. RamInv'
  BY <1>1, <1>2, <1>3, IdleType DEF IInv, RamInv, Held, flash
<1>7. PromiseInv'
  BY <1>2, <1>3 DEF IInv, PromiseInv, Held, flash
<1>8. CutInv'
  BY DEF IInv, CutInv, flash
<1>9. QED
  BY <1>4, <1>5, <1>6, <1>7, <1>8 DEF IInv

\* confirm, mark_spent and rename move a note in RAM to the same or a later
\* state and never to another secret.
LEMMA UpdateStep ==
    ASSUME IInv, op = Idle, NEW id \in Held, NEW n \in Note,
           n.secret = notes[id].secret, AtLeast(n.state, notes[id].state),
           Update(id, n)
    PROVE  IInv'
<1> USE VaultAssumption DEF VaultAssumption, Update
<1>0. id \in Ids /\ notes[id] \in Note /\ notes[id] # NoNote
  BY DEF IInv, TypeOK, Held
<1>1. /\ op' \in Op /\ op'.kind = "update" /\ op'.subj = {id} /\ op'.todo = {id}
      /\ op'.old = notes[id]
  BY <1>0 DEF OpKind, Call, Op
<1>2. /\ notes'[id] = n /\ n # NoNote
      /\ \A i \in Ids \ {id} : notes'[i] = notes[i]
  BY <1>0 DEF IInv, TypeOK
<1>3. Held' = Held
  BY <1>0, <1>2 DEF Held
<1>4. TypeOK'
  BY <1>1 DEF IInv, TypeOK, flash
<1>5. /\ indexKnown /\ id \in index /\ Backs(blobs[id], notes[id].state)
      /\ blobs[id].secret = notes[id].secret
      /\ "commit" \notin Faults => blobs[id] = notes[id]
      /\ promise[id] \in NoteState => AtLeast(notes[id].state, promise[id])
  BY IdleType DEF IInv, RamInv
<1>6. OpInv'
  BY <1>0, <1>1, <1>2, <1>5 DEF OpInv, CreateInv, UpdateInv, RemoveInv, flash
<1>7. RamInv'
  <2> SUFFICES ASSUME NEW i \in Held'
               PROVE  RamInv!(i)'
    BY DEF RamInv
  <2>1. CASE i = id
    BY <1>0, <1>1, <1>2, <1>3, <1>5, <2>1 DEF IInv, RamInv, flash, TypeOK, Promise
  <2>2. CASE i # id
    BY <1>1, <1>2, <1>3, <2>2, IdleType DEF IInv, RamInv, flash, Held
  <2>3. QED
    BY <2>1, <2>2
<1>8. PromiseInv'
  BY <1>3 DEF IInv, PromiseInv, flash
<1>9. CutInv'
  BY DEF IInv, CutInv, flash
<1>10. QED
  BY <1>4, <1>6, <1>7, <1>8, <1>9 DEF IInv

\* discard, delete and prune_spent take notes out of RAM and release them.
LEMMA RemoveStep ==
    ASSUME IInv, op = Idle, NEW S \in SUBSET Held, S # {}, Remove(S)
    PROVE  IInv'
<1> USE VaultAssumption DEF VaultAssumption, Remove
<1>0. S \subseteq Ids /\ indexKnown
  BY DEF Held, IInv, RamInv
<1>1. op' \in Op /\ op'.kind = "remove" /\ op'.subj = S /\ op'.todo = S
  BY <1>0 DEF OpKind, Call, Op
<1>2. /\ \A id \in S : notes'[id] = NoNote /\ promise'[id] = "none"
      /\ \A id \in Ids \ S : notes'[id] = notes[id] /\ promise'[id] = promise[id]
      /\ Held' = Held \ S
  BY <1>0 DEF Forgotten, Released, Held
<1>3. TypeOK'
  BY <1>1 DEF IInv, TypeOK, flash, Forgotten, Released, Promise
<1>4. OpInv'
  BY <1>0, <1>1, <1>2 DEF OpInv, CreateInv, UpdateInv, RemoveInv, flash, IInv, RamInv
<1>5. RamInv'
  BY <1>1, <1>2, IdleType DEF IInv, RamInv, flash, Held
<1>6. PromiseInv'
  BY <1>0, <1>2 DEF IInv, PromiseInv, flash
<1>7. CutInv'
  BY DEF IInv, CutInv, flash
<1>8. QED
  BY <1>3, <1>4, <1>5, <1>6, <1>7 DEF IInv

-----------------------------------------------------------------------------
(***************************************************************************)
(* The flash writes.                                                       *)
(***************************************************************************)

\* A creation whose write failed is taken out of RAM before it is undone on
\* flash: blobs' and index' are whatever the failed write left of them.
LEMMA UndoStep ==
    ASSUME IInv, op.kind = "create", UndoCreate,
           UNCHANGED <<unloaded, indexKnown>>, TypeOK',
           \A id \in Ids \ op.subj : blobs'[id] = blobs[id],
           \A id \in Ids : promise[id] \in NoteState /\ id \in index \ cut' => id \in index',
           \A id \in Ids : promise[id] = "gone" => id \notin index',
           \A id \in Held \ op.subj : id \in index' /\ id \notin cut',
           \A id \in op.subj : id \notin cut',
           \A id \in cut : id \in cut' \/ id \in index' \cap unloaded,
           CutInv'
    PROVE  IInv'
<1> USE DEF UndoCreate
<1>0. op.subj \subseteq Ids /\ op.kind # "idle" /\ indexKnown
  BY DEF IInv, OpInv, TypeOK, Op
<1>1. /\ op'.kind = "undo" /\ op'.subj = op.subj /\ op'.todo = op.subj
  BY DEF Call
<1>2. /\ \A id \in op.subj : notes'[id] = NoNote
      /\ \A id \in Ids \ op.subj : notes'[id] = notes[id]
      /\ Held' = Held \ op.subj
      /\ op.subj \subseteq Held
  BY <1>0 DEF Forgotten, Held, IInv, OpInv, CreateInv
<1>3. OpInv'
  BY <1>0, <1>1, <1>2 DEF IInv, OpInv, CreateInv, UpdateInv, RemoveInv
<1>4. RamInv'
  <2> SUFFICES ASSUME NEW id \in Held' PROVE RamInv!(id)'
    BY DEF RamInv
  <2>1. id \in Held /\ id \in Ids \ op.subj
    BY <1>2 DEF Held
  <2>2. QED
    BY <1>0, <1>1, <1>2, <2>1 DEF IInv, RamInv
<1>5. PromiseInv'
  BY <1>0, <1>2 DEF IInv, PromiseInv, OpInv, CreateInv, Held
<1>6. QED
  BY <1>3, <1>4, <1>5 DEF IInv

LEMMA SaveNewNoteStep ==
    ASSUME IInv, NEW id \in Ids, NEW o \in Outcome, SaveNewNote(id, o)
    PROVE  IInv'
<1> USE DEF SaveNewNote
<1>0. op.subj \subseteq Ids /\ id \in op.subj /\ notes[id] \in Note
  BY DEF IInv, OpInv, CreateInv, TypeOK, Op
<1>1. blobs' \in [Ids -> Note \cup {NoNote}] /\ \A i \in Ids \ {id} : blobs'[i] = blobs[i]
  BY <1>0 DEF IInv, TypeOK
<1>2. promise' = promise
  BY DEF UndoCreate
<1>3. CutInv'
  BY DEF IInv, CutInv
<1>4. CASE o.ok
  <2>1. op' = [op EXCEPT !.todo = op.todo \ {id}] /\ notes' = notes /\ Held' = Held
    BY <1>4 DEF Held
  <2>2. /\ op' \in Op /\ op'.kind = "create" /\ op'.subj = op.subj /\ op'.old = op.old
        /\ op'.todo = op.todo \ {id}
    BY <2>1 DEF IInv, TypeOK, Op
  <2>3. blobs' = [blobs EXCEPT ![id] = notes[id]]
    BY <1>4 DEF Outcome
  <2>4. TypeOK'
    BY <1>1, <1>2, <2>1, <2>2 DEF IInv, TypeOK
  <2>5. OpInv'
    BY <1>0, <1>1, <1>2, <2>1, <2>2, <2>3 DEF IInv, OpInv, CreateInv, UpdateInv, RemoveInv, TypeOK
  <2>6. RamInv'
    BY <1>0, <1>1, <1>2, <2>1, <2>2 DEF IInv, RamInv, Held
  <2>7. PromiseInv'
    BY <1>0, <1>1, <1>2, <2>1 DEF IInv, PromiseInv, OpInv, CreateInv, RamInv, Held
  <2>8. QED
    BY <1>3, <2>4, <2>5, <2>6, <2>7 DEF IInv
<1>5. CASE ~o.ok
  <2>1. UndoCreate
    BY <1>5
  <2>2. op' \in Op /\ notes' \in [Ids -> Note \cup {NoNote}]
    BY <2>1, <1>0 DEF UndoCreate, Forgotten, Call, Op, OpKind, IInv, TypeOK
  <2>3. TypeOK'
    BY <1>1, <1>2, <2>2 DEF IInv, TypeOK
  <2>4. /\ \A i \in Held \ op.subj : i \in index /\ i \notin cut
        /\ \A i \in op.subj : i \notin cut
        /\ \A i \in Ids : promise[i] = "gone" => i \notin index
    BY DEF IInv, RamInv, OpInv, CreateInv, PromiseInv
  <2>5. QED
    BY <1>0, <1>1, <1>3, <2>1, <2>3, <2>4, UndoStep
<1>6. QED
  BY <1>4, <1>5

LEMMA SaveUpdateStep ==
    ASSUME IInv, NEW id \in Ids, NEW o \in Outcome, SaveUpdate(id, o)
    PROVE  IInv'
<1> USE DEF SaveUpdate
<1>0. /\ op.subj = {id} /\ notes[id] \in Note /\ op.old \in Note /\ notes[id] # NoNote
      /\ op.old # NoNote /\ id \in Held /\ indexKnown
      /\ id \in index /\ id \notin unloaded \cup cut /\ promise[id] # "gone"
  BY DEF IInv, OpInv, UpdateInv, TypeOK, Op, Held, RamInv
<1>1. blobs' \in [Ids -> Note \cup {NoNote}] /\ \A i \in Ids \ {id} : blobs'[i] = blobs[i]
  BY <1>0 DEF IInv, TypeOK
<1>2. op' = Idle /\ op' \in Op
  BY IdleType
<1>3. /\ notes'[id] \in Note /\ notes'[id] # NoNote
      /\ notes' \in [Ids -> Note \cup {NoNote}]
      /\ \A i \in Ids \ {id} : notes'[i] = notes[i] /\ promise'[i] = promise[i]
  BY <1>0 DEF IInv, TypeOK
<1>4. Held' = Held
  BY <1>0, <1>3 DEF Held
<1>5. /\ Backs(blobs'[id], notes'[id].state)
      /\ blobs'[id].secret = notes'[id].secret
      /\ "commit" \notin Faults => blobs'[id] = notes'[id]
      /\ promise'[id] \in NoteState \cup {"none"}
      /\ promise'[id] \in NoteState => AtLeast(notes'[id].state, promise'[id])
  <2>1. CASE o.ok
    <3>1. blobs'[id] = notes[id] /\ notes' = notes /\ promise'[id] = notes[id].state
      BY <1>0, <2>1 DEF Outcome, IInv, TypeOK
    <3>2. QED
      BY <1>0, <3>1
  <2>2. CASE ~o.ok
    <3>1. notes'[id] = op.old /\ promise' = promise
      BY <1>0, <2>2 DEF IInv, TypeOK
    <3>2. blobs'[id] \in {blobs[id], notes[id]}
      BY <1>0 DEF IInv, TypeOK
    <3>3. "commit" \notin Faults => blobs' = blobs
      BY <2>2 DEF Outcome
    <3>4. /\ AtLeast(notes[id].state, op.old.state) /\ notes[id].secret = op.old.secret
          /\ Backs(blobs[id], op.old.state) /\ blobs[id].secret = op.old.secret
          /\ "commit" \notin Faults => blobs[id] = op.old
          /\ promise[id] \in NoteState => AtLeast(op.old.state, promise[id])
      BY <1>0 DEF IInv, OpInv, UpdateInv
    <3>5. QED
      BY <1>0, <3>1, <3>2, <3>3, <3>4 DEF IInv, TypeOK, Promise
  <2>3. QED
    BY <2>1, <2>2
<1>6. TypeOK'
  BY <1>1, <1>2, <1>3, <1>5 DEF IInv, TypeOK, Promise
<1>7. OpInv'
  BY <1>2, IdleType DEF OpInv, CreateInv, UpdateInv, RemoveInv
<1>8. RamInv'
  <2> SUFFICES ASSUME NEW i \in Held' PROVE RamInv!(i)'
    BY DEF RamInv
  <2>1. CASE i = id
    BY <1>0, <1>2, <1>4, <1>5, <2>1, IdleType
  <2>2. CASE i # id
    BY <1>0, <1>1, <1>2, <1>3, <1>4, <2>2, IdleType DEF IInv, RamInv, Held
  <2>3. QED
    BY <2>1, <2>2
<1>9. PromiseInv'
  BY <1>0, <1>1, <1>3, <1>4, <1>5 DEF IInv, PromiseInv
<1>10. CutInv'
  BY DEF IInv, CutInv
<1>11. QED
  BY <1>6, <1>7, <1>8, <1>9, <1>10 DEF IInv

LEMMA DeleteBlobStep ==
    ASSUME IInv, NEW id \in Ids, NEW o \in Outcome, DeleteBlob(id, o)
    PROVE  IInv'
<1> USE DEF DeleteBlob, ram
<1>0. id \in op.subj /\ notes[id] = NoNote /\ promise[id] = "none" /\ id \notin Held
  BY DEF IInv, OpInv, RemoveInv, Held
<1>1. /\ blobs' \in [Ids -> Note \cup {NoNote}] /\ \A i \in Ids \ {id} : blobs'[i] = blobs[i]
      /\ o.ok => blobs'[id] = NoNote
      /\ blobs[id] = NoNote => blobs'[id] = NoNote
  BY DEF IInv, TypeOK, Outcome
<1>2. /\ op' \in Op /\ op'.kind = op.kind /\ op'.subj = op.subj
      /\ op'.todo = op.todo \ {id} /\ op'.ok = (op.ok /\ o.ok)
  BY DEF IInv, TypeOK, Op, Outcome
<1>3. TypeOK'
  BY <1>1, <1>2 DEF IInv, TypeOK
<1>4. OpInv'
  BY <1>0, <1>1, <1>2 DEF IInv, OpInv, CreateInv, UpdateInv, RemoveInv, TypeOK, Op
<1>5. RamInv'
  BY <1>0, <1>1, <1>2 DEF IInv, RamInv, Held
<1>6. PromiseInv'
  BY <1>0, <1>1 DEF IInv, PromiseInv, Held
<1>7. CutInv'
  BY DEF IInv, CutInv
<1>8. QED
  BY <1>3, <1>4, <1>5, <1>6, <1>7 DEF IInv

\* What a rewrite of the index does, whoever asked for it.
IndexEffect(o) ==
    /\ index' \subseteq Ids /\ cut' \subseteq Ids /\ CutInv'
    /\ \A id \in Held : id \notin cut' /\ id \notin unloaded
    /\ \A id \in Held : id \in index \/ o.ok => id \in index'
    /\ \A id \in op.subj : id \notin cut' /\ (o.ok /\ id \notin Held => id \notin index')
    /\ \A id \in index \cap unloaded : id \notin cut' => id \in index'
    /\ \A id \in cut : id \in cut' \/ id \in index' \cap unloaded
    /\ \A id \in Ids : promise[id] = "gone" => id \notin index'

LEMMA PersistIndexEffect ==
    ASSUME IInv, indexKnown, op.kind # "update", op.todo = {},
           NEW kept \in SUBSET Ids, NEW o \in Outcome, PersistIndex(kept, o)
    PROVE  IndexEffect(o)
<1> USE DEF PersistIndex, IndexEffect
<1>1. /\ Held \subseteq Ids /\ op.subj \subseteq Ids /\ unloaded \subseteq index \cup cut
      /\ cut \cap index = {} /\ index \subseteq Ids /\ cut \subseteq Ids
  BY DEF IInv, TypeOK, CutInv, Op, Held
<1>2. \A id \in Held : id \notin unloaded \cup cut /\ promise[id] # "gone"
  BY DEF IInv, RamInv
<1>3. \A id \in op.subj : id \notin unloaded \cup cut
  BY DEF IInv, OpInv, CreateInv, RemoveInv, TypeOK, Op, OpKind, Idle, Call
<1>4. \A id \in Ids : promise[id] = "gone" => id \notin index \cup unloaded
  BY DEF IInv, PromiseInv
<1>5. CASE o.done
  <2>1. index' = Held \cup kept /\ cut' = (cut \cup unloaded) \ (Held \cup kept)
    BY <1>5
  <2>2. kept \subseteq unloaded
    BY DEF IndexImage
  <2>3. QED
    BY <1>1, <1>2, <1>3, <1>4, <2>1, <2>2 DEF CutInv
<1>6. CASE ~o.done
  <2>1. index' = index /\ cut' = cut /\ ~o.ok
    BY <1>6 DEF Outcome
  <2>2. QED
    BY <1>1, <1>2, <1>3, <1>4, <2>1 DEF CutInv
<1>7. QED
  BY <1>5, <1>6

LEMMA IndexCreatedStep ==
    ASSUME IInv, NEW kept \in SUBSET Ids, NEW o \in Outcome, IndexCreated(kept, o)
    PROVE  IInv'
<1> USE DEF IndexCreated, IndexEffect
<1>0. indexKnown /\ op.todo = {} /\ op.subj \subseteq Ids
  BY DEF IInv, OpInv, PersistIndex, TypeOK, Op
<1>1. UNCHANGED <<unloaded, indexKnown, blobs>>
  BY DEF PersistIndex
<1>2. /\ \A id \in op.subj : /\ id \in Held /\ notes[id] \in Note /\ blobs[id] = notes[id]
                             /\ promise[id] = "none"
  BY <1>0 DEF IInv, OpInv, CreateInv, Held, TypeOK
<1>3. IndexEffect(o)
  BY <1>0, PersistIndexEffect DEF OpKind
<1>4. CASE o.ok
  <2>1. /\ op' = Idle /\ notes' = notes /\ Held' = Held
        /\ \A id \in op.subj : promise'[id] = notes[id].state
        /\ \A id \in Ids \ op.subj : promise'[id] = promise[id]
        /\ promise' \in [Ids -> Promise]
    BY <1>0, <1>2, <1>4 DEF Held, IInv, TypeOK, Promise
  <2>2. TypeOK'
    BY <1>1, <1>3, <2>1, IdleType DEF IInv, TypeOK
  <2>3. OpInv'
    BY <2>1, IdleType DEF OpInv, CreateInv, UpdateInv, RemoveInv
  <2>4. RamInv'
    <3> SUFFICES ASSUME NEW id \in Held' PROVE RamInv!(id)'
      BY DEF RamInv
    <3>1. id \in Held /\ id \in Ids
      BY <2>1 DEF Held
    <3>2. CASE id \in op.subj
      <4>1. notes'[id] = notes[id] /\ blobs'[id] = notes[id] /\ notes[id] # NoNote
        BY <1>1, <1>2, <2>1, <3>2 DEF Held
      <4>2. promise'[id] = notes[id].state /\ notes[id].state \in NoteState
        BY <1>2, <2>1, <3>2
      <4>3. QED
        BY <1>0, <1>1, <1>3, <1>4, <3>1, <4>1, <4>2
    <3>3. CASE id \notin op.subj
      BY <1>0, <1>1, <1>3, <1>4, <2>1, <3>1, <3>3, IdleType DEF IInv, RamInv
    <3>4. QED
      BY <3>2, <3>3
  <2>5. PromiseInv'
    <3> SUFFICES ASSUME NEW id \in Ids PROVE PromiseInv!(id)'
      BY DEF PromiseInv
    <3>1. CASE id \in op.subj
      <4>1. blobs'[id] = notes[id] /\ id \in Held /\ notes[id] # NoNote
        BY <1>1, <1>2, <3>1 DEF Held
      <4>2. promise'[id] = notes[id].state /\ notes[id].state \in NoteState
        BY <1>2, <2>1, <3>1
      <4>3. id \in index'
        BY <1>3, <1>4, <4>1
      <4>4. QED
        BY <2>1, <4>1, <4>2, <4>3
    <3>2. CASE id \notin op.subj
      BY <1>0, <1>1, <1>3, <1>4, <2>1, <3>2 DEF IInv, PromiseInv
    <3>3. QED
      BY <3>1, <3>2
  <2>6. QED
    BY <1>3, <2>2, <2>3, <2>4, <2>5 DEF IInv
<1>5. CASE ~o.ok
  <2>1. UndoCreate
    BY <1>5
  <2>2. op' \in Op /\ notes' \in [Ids -> Note \cup {NoNote}] /\ promise' = promise
    BY <2>1, <1>0 DEF UndoCreate, Forgotten, Call, Op, OpKind, IInv, TypeOK
  <2>3. TypeOK'
    BY <1>1, <1>3, <2>2 DEF IInv, TypeOK
  <2>4. \A i \in Held \ op.subj : i \in index
    BY DEF IInv, RamInv
  <2>5. \A i \in Ids : promise[i] \in NoteState /\ i \in index \ cut' => i \in index'
    BY <1>0, <1>3 DEF IInv, PromiseInv, CutInv, RamInv
  <2>6. QED
    BY <1>1, <1>3, <2>1, <2>3, <2>4, <2>5, UndoStep
<1>6. QED
  BY <1>4, <1>5

\* The last write of an undo or a removal: the call is over, and only an ok
\* reply after a clean removal marks the notes as gone.
LEMMA IndexWrittenStep ==
    ASSUME IInv, op.kind \in {"undo", "remove"},
           NEW kept \in SUBSET Ids, NEW o \in Outcome,
           PersistIndex(kept, o), op' = Idle, notes' = notes,
           \/ promise' = promise
           \/ promise' = [id \in Ids |-> IF id \in op.subj /\ op.ok /\ o.ok
                                         THEN "gone" ELSE promise[id]]
    PROVE  IInv'
<1>0. indexKnown /\ op.todo = {} /\ op.subj \subseteq Ids
  BY DEF IInv, OpInv, PersistIndex, TypeOK, Op
<1>1. UNCHANGED <<unloaded, indexKnown, blobs>> /\ Held' = Held
  BY DEF PersistIndex, Held
<1>2. IndexEffect(o)
  BY <1>0, PersistIndexEffect
<1>3. \A id \in op.subj : /\ id \notin Held /\ promise[id] = "none" /\ id \notin unloaded
                          /\ op.ok => blobs[id] = NoNote
  BY <1>0 DEF IInv, OpInv, RemoveInv, Held
<1>4. /\ promise' \in [Ids -> Promise]
      /\ \A id \in Ids : \/ promise'[id] = promise[id]
                         \/ /\ promise'[id] = "gone" /\ id \in op.subj /\ op.ok /\ o.ok
  BY DEF IInv, TypeOK, Promise
<1>5. TypeOK'
  BY <1>1, <1>2, <1>4, IdleType DEF IInv, TypeOK, IndexEffect
<1>6. OpInv'
  BY IdleType DEF OpInv, CreateInv, UpdateInv, RemoveInv
<1>7. RamInv'
  <2> SUFFICES ASSUME NEW id \in Held' PROVE RamInv!(id)'
    BY DEF RamInv
  <2>1. id \in Held /\ id \in Ids \ op.subj /\ promise'[id] = promise[id]
    BY <1>1, <1>3, <1>4 DEF Held
  <2>2. QED
    BY <1>0, <1>1, <1>2, <2>1, IdleType DEF IInv, RamInv, IndexEffect
<1>8. PromiseInv'
  <2> SUFFICES ASSUME NEW id \in Ids PROVE PromiseInv!(id)'
    BY DEF PromiseInv
  <2>1. CASE promise'[id] = promise[id]
    BY <1>0, <1>1, <1>2, <2>1 DEF IInv, PromiseInv, CutInv, RamInv, IndexEffect
  <2>2. CASE promise'[id] = "gone" /\ id \in op.subj /\ op.ok /\ o.ok
    BY <1>1, <1>2, <1>3, <2>2 DEF IndexEffect
  <2>3. QED
    BY <1>4, <2>1, <2>2
<1>9. QED
  BY <1>2, <1>5, <1>6, <1>7, <1>8 DEF IInv, IndexEffect

\* A boot rebuilds RAM from flash, as far as flash can be read.
LEMMA BootStep ==
    ASSUME IInv, NEW readable \in BOOLEAN, NEW bad \in SUBSET index, Boot(readable, bad)
    PROVE  IInv'
<1> USE DEF Boot, flash
<1>1. op' = Idle
  OBVIOUS
<1>2. \A id \in Held' : /\ id \in Ids /\ readable /\ id \in index \ bad
                        /\ notes'[id] = blobs[id] /\ blobs[id] # NoNote
                        /\ blobs[id] \in Note
  BY DEF Held, IInv, TypeOK
<1>3. TypeOK'
  BY IdleType DEF IInv, TypeOK
<1>4. OpInv'
  BY IdleType DEF OpInv, CreateInv, UpdateInv, RemoveInv
<1>5. RamInv'
  BY <1>1, <1>2, IdleType DEF IInv, RamInv, PromiseInv, CutInv
<1>6. PromiseInv'
  <2> SUFFICES ASSUME NEW id \in Ids PROVE PromiseInv!(id)'
    BY DEF PromiseInv
  <2>1. id \in index /\ blobs[id] # NoNote /\ readable => id \in Held' \cup unloaded'
    BY DEF Held, IInv, TypeOK
  <2>2. unloaded' \subseteq index
    OBVIOUS
  <2>3. QED
    BY <2>1, <2>2 DEF IInv, PromiseInv
<1>7. CutInv'
  BY DEF IInv, CutInv
<1>8. QED
  BY <1>3, <1>4, <1>5, <1>6, <1>7 DEF IInv

\* Requests come down to a creation, an update or a removal.
LEMMA RequestStep == IInv /\ Request => IInv'
<1> SUFFICES ASSUME IInv, Request PROVE IInv'
  OBVIOUS
<1>1. ASSUME NEW id \in Ids, NEW s \in Secrets, NEW m \in Metas,
             NewSecret(id, s, m) \/ ImportSecret(id, s, m)
      PROVE  IInv'
  <2>1. PICK st \in NoteState : /\ op = Idle /\ indexKnown /\ FreshId(id)
                                /\ Create([i \in {id} |-> NewNote(s, st, m)])
    BY <1>1 DEF NewSecret, ImportSecret, CanCreate
  <2>2. [i \in {id} |-> NewNote(s, st, m)] \in [{id} -> Note]
    BY DEF NewNote
  <2>3. QED
    BY <2>1, <2>2, CreateStep
<1>2. ASSUME NEW id1 \in Ids, NEW id2 \in Ids, NEW s1 \in Secrets, NEW s2 \in Secrets,
             NEW m \in Metas, NewSecretPair(id1, id2, s1, s2, m)
      PROVE  IInv'
  <2> DEFINE new == [i \in {id1, id2} |-> NewNote(IF i = id1 THEN s1 ELSE s2, "pending", m)]
  <2>1. op = Idle /\ indexKnown /\ FreshId(id1) /\ FreshId(id2) /\ Create(new)
    BY <1>2 DEF NewSecretPair, CanCreate
  <2>2. new \in [{id1, id2} -> Note]
    BY DEF NewNote
  <2> HIDE DEF new
  <2>3. QED
    BY <2>1, <2>2, CreateStep
<1>3. ASSUME NEW id \in Ids, NEW m \in Metas, Confirm(id, m) \/ Rename(id, m)
      PROVE  IInv'
  <2>1. PICK n \in Note : /\ op = Idle /\ id \in Held /\ Update(id, n)
                          /\ n.secret = notes[id].secret /\ AtLeast(n.state, notes[id].state)
    <3>1. op = Idle /\ id \in Held /\ notes[id] \in Note
      BY <1>3 DEF Confirm, Rename, InState, Held, IInv, TypeOK
    <3>2. CASE Confirm(id, m)
      BY <3>1, <3>2 DEF Confirm, InState
    <3>3. CASE Rename(id, m)
      BY <3>1, <3>3 DEF Rename
    <3>4. QED
      BY <1>3, <3>2, <3>3
  <2>2. QED
    BY <2>1, UpdateStep
<1>4. ASSUME NEW id \in Ids, MarkSpent(id)
      PROVE  IInv'
  <2>1. op = Idle /\ id \in Held /\ notes[id] \in Note
    BY <1>4 DEF MarkSpent, InState, Held, IInv, TypeOK
  <2>2. [notes[id] EXCEPT !.state = "spent"] \in Note
    BY <2>1
  <2>3. QED
    BY <1>4, <2>1, <2>2, UpdateStep DEF MarkSpent
<1>5. ASSUME NEW id \in Ids, ImportSecretAgain(id)
      PROVE  IInv'
  <2>1. /\ op = Idle /\ indexKnown /\ id \in Held /\ notes[id] \in Note
        /\ promise' = [promise EXCEPT ![id] = notes[id].state]
        /\ UNCHANGED <<notes, unloaded, indexKnown, blobs, index, op, cut>>
    BY <1>5 DEF ImportSecretAgain, CanCreate, ram, flash, Held, IInv, TypeOK
  <2>2. /\ promise'[id] = notes[id].state /\ promise'[id] \in NoteState
        /\ \A i \in Ids \ {id} : promise'[i] = promise[i]
        /\ Held' = Held
    BY <2>1 DEF IInv, TypeOK, Held
  <2>3. TypeOK'
    BY <2>1, <2>2 DEF IInv, TypeOK, Promise
  <2>4. OpInv'
    BY <2>1, IdleType DEF IInv, OpInv, CreateInv, UpdateInv, RemoveInv
  <2>5. RamInv'
    BY <2>1, <2>2 DEF IInv, RamInv, Held
  <2>6. PromiseInv' /\ CutInv'
    BY <2>1, <2>2, IdleType DEF IInv, RamInv, PromiseInv, CutInv
  <2>7. QED
    BY <2>3, <2>4, <2>5, <2>6 DEF IInv
<1>6. ASSUME NEW id \in Ids, Discard(id) \/ Delete(id)
      PROVE  IInv'
  BY <1>6, RemoveStep DEF Discard, Delete, InState
<1>7. CASE PruneSpent
  BY <1>7, RemoveStep DEF PruneSpent, InState
<1>8. QED
  BY <1>1, <1>2, <1>3, <1>4, <1>5, <1>6, <1>7 DEF Request

LEMMA StepInv == IInv /\ [Next]_vars => IInv'
<1> SUFFICES ASSUME IInv, [Next]_vars PROVE IInv'
  OBVIOUS
<1>1. CASE Request
  BY <1>1, RequestStep
<1>2. CASE FlashWrite
  <2>1. PICK o \in Outcome :
          \/ \E id \in Ids : SaveNewNote(id, o) \/ SaveUpdate(id, o) \/ DeleteBlob(id, o)
          \/ \E kept \in SUBSET Ids :
                IndexCreated(kept, o) \/ IndexUndone(kept, o) \/ IndexRemoved(kept, o)
    BY <1>2 DEF FlashWrite
  <2>2. ASSUME NEW kept \in SUBSET Ids, IndexUndone(kept, o) \/ IndexRemoved(kept, o)
        PROVE  IInv'
    BY <2>2, IndexWrittenStep DEF IndexUndone, IndexRemoved
  <2>3. QED
    BY <2>1, <2>2, SaveNewNoteStep, SaveUpdateStep, DeleteBlobStep, IndexCreatedStep
<1>3. CASE Restart
  BY <1>3, BootStep DEF Restart
<1>4. CASE UNCHANGED vars
  BY <1>4 DEF vars, ram, flash, IInv, TypeOK, OpInv, CreateInv, UpdateInv, RemoveInv,
              RamInv, Held, PromiseInv, CutInv
<1>5. QED
  BY <1>1, <1>2, <1>3, <1>4 DEF Next

-----------------------------------------------------------------------------
(***************************************************************************)
(* The invariants the runs check.                                          *)
(***************************************************************************)

\* The variables keep their types.
THEOREM TypeCorrect == Spec => []TypeOK
<1>1. IInv => TypeOK
  BY DEF IInv
<1>2. QED
  BY <1>1, InitInv, StepInv, PTL DEF Spec

\* What the host was told it holds survives every failed write, every restart
\* and every unreadable blob (vault_new_secret, vault_confirm, vault_init).
THEOREM AckSurvives == Spec => []AcknowledgedSurvives
<1>1. IInv => AcknowledgedSurvives
  BY DEF IInv, PromiseInv, AcknowledgedSurvives
<1>2. QED
  BY <1>1, InitInv, StepInv, PTL DEF Spec

\* A removal answered ok is final (remove_at, vault_prune_spent).
THEOREM RemovalIsFinal == Spec => []RemovedStaysRemoved
<1>1. IInv => RemovedStaysRemoved
  BY DEF IInv, PromiseInv, RemovedStaysRemoved
<1>2. QED
  BY <1>1, InitInv, StepInv, PTL DEF Spec

\* A note acknowledged as spent is not exported again (vault_mark_spent,
\* vault_export_secret).
THEOREM SpentNotExported == Spec => []SpentIsNotExportable
<1>1. IInv => SpentIsNotExportable
  BY DEF IInv, RamInv, SpentIsNotExportable, Exportable, InState
<1>2. QED
  BY <1>1, InitInv, StepInv, PTL DEF Spec

\* Between calls RAM holds what flash holds (the undo and restore paths).
THEOREM RamAndFlashAgree == Spec => []RamMatchesFlash
<1>1. IInv => RamMatchesFlash
  BY IdleType DEF IInv, RamInv, RamMatchesFlash
<1>2. QED
  BY <1>1, InitInv, StepInv, PTL DEF Spec

\* A request changes RAM only; its flash writes are steps of their own.
LEMMA RequestLeavesFlash == Request => UNCHANGED <<flash, cut>>
<1>1. \A new : Create(new) => UNCHANGED <<flash, cut>>
  BY DEF Create
<1>2. \A id, n : Update(id, n) => UNCHANGED <<flash, cut>>
  BY DEF Update
<1>3. \A S : Remove(S) => UNCHANGED <<flash, cut>>
  BY DEF Remove
<1>4. QED
  BY <1>1, <1>2, <1>3 DEF Request, NewSecret, ImportSecret, NewSecretPair, Confirm, Rename,
       ImportSecretAgain, MarkSpent, Discard, Delete, PruneSpent

\* No call writes or erases the blob of a note that could not be read.
THEOREM UnreadIsUntouched == Spec => UnloadedUntouched
<1> DEFINE A == \A id \in unloaded \cap unloaded' : blobs'[id] = blobs[id]
<1>1. ASSUME IInv, Next PROVE A
  <2>1. \A id \in unloaded : id \in Ids /\ id \notin Held /\ (op.kind # "idle" => id \notin op.subj)
    BY <1>1 DEF IInv, TypeOK, RamInv, OpInv, CreateInv, UpdateInv, RemoveInv, Op, OpKind, Held
  <2>2. CASE Request
    BY <2>2, RequestLeavesFlash DEF flash
  <2>3. CASE FlashWrite
    <3>1. ASSUME NEW i \in Ids, NEW o \in Outcome,
                 SaveNewNote(i, o) \/ SaveUpdate(i, o) \/ DeleteBlob(i, o)
          PROVE  A
      <4>1. i \in op.subj /\ op.kind # "idle"
        BY <1>1, <3>1 DEF SaveNewNote, SaveUpdate, DeleteBlob, IInv, OpInv
      <4>2. \A id \in Ids \ {i} : blobs'[id] = blobs[id]
        BY <1>1, <3>1 DEF SaveNewNote, SaveUpdate, DeleteBlob, IInv, TypeOK
      <4>3. QED
        BY <2>1, <4>1, <4>2
    <3>2. ASSUME NEW kept \in SUBSET Ids, NEW o \in Outcome,
                 IndexCreated(kept, o) \/ IndexUndone(kept, o) \/ IndexRemoved(kept, o)
          PROVE  A
      BY <3>2 DEF IndexCreated, IndexUndone, IndexRemoved, PersistIndex
    <3>3. QED
      BY <2>3, <3>1, <3>2 DEF FlashWrite
  <2>4. CASE Restart
    BY <2>4 DEF Restart, Boot, flash
  <2>5. QED
    BY <1>1, <2>2, <2>3, <2>4 DEF Next
<1>2. IInv /\ [Next]_vars => [A]_vars
  BY <1>1
<1>3. QED
  BY <1>2, InitInv, StepInv, PTL DEF Spec, UnloadedUntouched

\* A new entry of the index comes with the other half of its split, and with
\* both blobs on flash (vault_new_secret_pair, "both halves of a split reach
\* flash, or neither is claimed"), or was cut from the index before.
THEOREM SplitsAreWhole == Spec => NamedWhole
<1> DEFINE A == \A id \in index' \ index :
                  \/ id \in cut
                  \/ /\ op.kind = "create" /\ id \in op.subj
                     /\ \A i \in op.subj : i \in index' /\ blobs'[i] = notes[i]
<1>1. ASSUME IInv, NEW kept \in SUBSET Ids, NEW o \in Outcome, PersistIndex(kept, o)
      PROVE  A
  <2> SUFFICES ASSUME NEW id \in index', id \notin index, id \notin cut
               PROVE  /\ op.kind = "create" /\ id \in op.subj
                      /\ \A i \in op.subj : i \in index' /\ blobs'[i] = notes[i]
    OBVIOUS
  <2>1. index' = Held \cup kept /\ kept \subseteq unloaded
    BY <1>1 DEF PersistIndex, IndexImage
  <2>2. id \in Held
    BY <1>1, <2>1 DEF IInv, CutInv
  <2>3. op.kind = "create" /\ id \in op.subj
    BY <1>1, <2>2 DEF IInv, RamInv
  <2>4. \A i \in op.subj : i \in Held /\ blobs'[i] = notes[i]
    BY <1>1, <2>3 DEF PersistIndex, IInv, OpInv, CreateInv, TypeOK, Op, Held
  <2>5. QED
    BY <2>1, <2>3, <2>4
<1>2. ASSUME IInv, Next PROVE A
  <2>1. CASE index' = index
    BY <2>1
  <2>2. CASE Request \/ Restart
    BY <2>1, <2>2, RequestLeavesFlash DEF flash, Restart, Boot
  <2>3. CASE FlashWrite
    BY <1>1, <1>2, <2>1, <2>3 DEF FlashWrite, SaveNewNote, SaveUpdate, DeleteBlob,
       IndexCreated, IndexUndone, IndexRemoved
  <2>4. QED
    BY <1>2, <2>2, <2>3 DEF Next
<1>3. IInv /\ [Next]_vars => [A]_vars
  BY <1>2
<1>4. QED
  BY <1>3, InitInv, StepInv, PTL DEF Spec, NamedWhole

-----------------------------------------------------------------------------
(***************************************************************************)
(* Capacity.  A step adds to g_notes only in Create, which counted first,  *)
(* and in Boot, which loads no more than the index names.                  *)
(***************************************************************************)
Fits(S) == Cardinality(S) <= MaxNotes

\* Sets of ids are finite, and what is in a set that fits, fits.
LEMMA FitsInside ==
    ASSUME NEW S \in SUBSET Ids, NEW T \in SUBSET S, Fits(S)
    PROVE  Fits(T)
<1>1. IsFiniteSet(S)
  BY VaultAssumption, FS_Subset DEF VaultAssumption
<1>2. /\ IsFiniteSet(T) /\ Cardinality(T) <= Cardinality(S)
      /\ Cardinality(S) \in Nat /\ Cardinality(T) \in Nat
  BY <1>1, FS_Subset, FS_CardinalityType
<1>3. MaxNotes \in Nat
  BY VaultAssumption DEF VaultAssumption
<1>4. QED
  BY <1>2, <1>3 DEF Fits

\* new_note() counts before it takes a slot, new_secret_pair() both of them.
LEMMA OneMoreFits ==
    ASSUME NEW S \in SUBSET Ids, NEW id \in Ids, Cardinality(S) + 1 <= MaxNotes
    PROVE  Fits(S \cup {id})
<1>1. IsFiniteSet(S) /\ MaxNotes \in Nat
  BY VaultAssumption, FS_Subset DEF VaultAssumption
<1>2. Cardinality(S) \in Nat
  BY <1>1, FS_CardinalityType
<1>3. Cardinality(S \cup {id}) = IF id \in S THEN Cardinality(S) ELSE Cardinality(S) + 1
  BY <1>1, FS_AddElement
<1>4. QED
  BY <1>1, <1>2, <1>3 DEF Fits

\* The same for both halves of a pair.
LEMMA TwoMoreFit ==
    ASSUME NEW S \in SUBSET Ids, NEW i \in Ids, NEW j \in Ids, Cardinality(S) + 2 <= MaxNotes
    PROVE  Fits(S \cup {i, j})
<1>1. IsFiniteSet(S) /\ IsFiniteSet(S \cup {i}) /\ MaxNotes \in Nat
  BY VaultAssumption, FS_Subset DEF VaultAssumption
<1>2. Cardinality(S) \in Nat /\ Cardinality(S \cup {i}) \in Nat
  BY <1>1, FS_CardinalityType
<1>3. Cardinality(S \cup {i}) = IF i \in S THEN Cardinality(S) ELSE Cardinality(S) + 1
  BY <1>1, FS_AddElement
<1>4. Cardinality(S \cup {i}) + 1 <= MaxNotes
  BY <1>1, <1>2, <1>3
<1>5. (S \cup {i}) \cup {j} = S \cup {i, j}
  OBVIOUS
<1>6. QED
  BY <1>4, <1>5, OneMoreFits

\* A request leaves room: what creates counted, everything else only shrinks.
LEMMA RequestFits ==
    ASSUME IInv, Fits(Held), Fits(index), Request
    PROVE  Fits(Held') /\ Fits(index')
<1>0. Held \in SUBSET Ids /\ index \in SUBSET Ids /\ index' = index
  BY RequestLeavesFlash DEF Held, IInv, TypeOK, flash
<1>1. ASSUME NEW id \in Ids, NEW s \in Secrets, NEW m \in Metas,
             NewSecret(id, s, m) \/ ImportSecret(id, s, m)
      PROVE  Fits(Held')
  <2>1. Fits(Held \cup {id})
    BY <1>0, <1>1, OneMoreFits DEF NewSecret, ImportSecret, CanCreate
  <2>2. Held' \subseteq Held \cup {id}
    <3>1. PICK st \in NoteState : Create([i \in {id} |-> NewNote(s, st, m)])
      BY <1>1 DEF NewSecret, ImportSecret
    <3>2. QED
      BY <3>1 DEF Create, Held
  <2>3. QED
    BY <1>0, <2>1, <2>2, FitsInside
<1>2. ASSUME NEW id1 \in Ids, NEW id2 \in Ids, NEW s1 \in Secrets, NEW s2 \in Secrets,
             NEW m \in Metas, NewSecretPair(id1, id2, s1, s2, m)
      PROVE  Fits(Held')
  <2>1. Fits(Held \cup {id1, id2})
    BY <1>0, <1>2, TwoMoreFit DEF NewSecretPair, CanCreate
  <2>2. Held' \subseteq Held \cup {id1, id2}
    BY <1>2 DEF NewSecretPair, Create, Held
  <2>3. QED
    BY <1>0, <2>1, <2>2, FitsInside
<1>3. ASSUME NEW id \in Held, NEW n, Update(id, n) PROVE Held' \subseteq Held
  BY <1>3 DEF Update, Held, IInv, TypeOK
<1>4. ASSUME NEW S, Remove(S) PROVE Held' \subseteq Held
  BY <1>4 DEF Remove, Forgotten, Held
<1>5. ASSUME Held' \subseteq Held PROVE Fits(Held')
  BY <1>0, <1>5, FitsInside
<1>6. ASSUME NEW id \in Ids, NEW m \in Metas, Confirm(id, m) \/ Rename(id, m)
      PROVE  Held' \subseteq Held
  BY <1>3, <1>6 DEF Confirm, Rename, InState
<1>7. ASSUME NEW id \in Ids, MarkSpent(id) PROVE Held' \subseteq Held
  BY <1>3, <1>7 DEF MarkSpent, InState
<1>8. ASSUME NEW id \in Ids, ImportSecretAgain(id) PROVE Held' \subseteq Held
  BY <1>8 DEF ImportSecretAgain, ram, Held
<1>9. ASSUME NEW id \in Ids, Discard(id) \/ Delete(id) PROVE Held' \subseteq Held
  BY <1>4, <1>9 DEF Discard, Delete
<1>10. CASE PruneSpent
  BY <1>0, <1>4, <1>5, <1>10 DEF PruneSpent
<1>11. QED
  BY <1>0, <1>1, <1>2, <1>5, <1>6, <1>7, <1>8, <1>9, <1>10 DEF Request

\* A flash write adds no note, and an index it writes is one that fits.
LEMMA WriteFits ==
    ASSUME IInv, Fits(Held), Fits(index), FlashWrite
    PROVE  Fits(Held') /\ Fits(index')
<1>0. Held \in SUBSET Ids
  BY DEF Held
<1>1. ASSUME UndoCreate PROVE Held' \subseteq Held
  BY <1>1 DEF UndoCreate, Forgotten, Held
<1>2. ASSUME UNCHANGED notes PROVE Held' \subseteq Held
  BY <1>2 DEF Held
<1>3. ASSUME NEW id \in Ids, NEW o \in Outcome, SaveUpdate(id, o)
      PROVE  Held' \subseteq Held
  <2>1. op.kind = "update" /\ id \in op.todo /\ id \in op.subj
    BY <1>3 DEF SaveUpdate, IInv, OpInv
  <2>2. notes[id] # NoNote
    BY <2>1 DEF IInv, OpInv, UpdateInv
  <2>3. \A i \in Ids \ {id} : notes'[i] = notes[i]
    BY <1>3 DEF SaveUpdate, IInv, TypeOK
  <2>4. QED
    BY <2>2, <2>3 DEF Held
<1>4. ASSUME NEW id \in Ids, NEW o \in Outcome,
             SaveNewNote(id, o) \/ SaveUpdate(id, o) \/ DeleteBlob(id, o)
      PROVE  Held' \subseteq Held /\ index' = index
  BY <1>1, <1>2, <1>3, <1>4 DEF SaveNewNote, SaveUpdate, DeleteBlob, ram
<1>5. ASSUME NEW kept \in SUBSET Ids, NEW o \in Outcome,
             IndexCreated(kept, o) \/ IndexUndone(kept, o) \/ IndexRemoved(kept, o)
      PROVE  Held' \subseteq Held /\ Fits(index')
  <2>1. Held' \subseteq Held
    BY <1>1, <1>2, <1>5 DEF IndexCreated, IndexUndone, IndexRemoved
  <2>2. index' = index \/ (index' = Held \cup kept /\ IndexImage(kept))
    BY <1>5 DEF IndexCreated, IndexUndone, IndexRemoved, PersistIndex
  <2>3. QED
    BY <2>1, <2>2 DEF IndexImage, Fits
<1>6. QED
  BY <1>0, <1>4, <1>5, FitsInside DEF FlashWrite

\* A boot loads what the index names.
LEMMA BootFits ==
    ASSUME IInv, Fits(index), Restart
    PROVE  Fits(Held') /\ Fits(index')
<1>1. index \in SUBSET Ids
  BY DEF IInv, TypeOK
<1>2. Held' \subseteq index /\ index' = index
  BY DEF Restart, Boot, Held, flash
<1>3. QED
  BY <1>1, <1>2, FitsInside

\* Neither g_notes nor the index blob overruns its MaxNotes entries, and a
\* boot that could not read the index holds nothing (new_note, persist_index).
THEOREM CapacityIsKept == Spec => []WithinCapacity
<1> DEFINE Both == Fits(Held) /\ Fits(index)
<1>1. IInv => (~indexKnown => Held = {} /\ op = Idle)
  BY DEF IInv, TypeOK, Op, OpKind, OpInv, RamInv
<1>2. Init => Both
  <2>1. ASSUME Init PROVE Held = {} /\ index = {}
    BY <2>1 DEF Init, Held
  <2>2. Cardinality({}) = 0 /\ MaxNotes \in Nat
    BY FS_EmptySet, VaultAssumption DEF VaultAssumption
  <2>3. QED
    BY <2>1, <2>2 DEF Fits
<1>3. ASSUME IInv, Both, [Next]_vars PROVE Both'
  <2>1. CASE UNCHANGED vars
    BY <1>3, <2>1 DEF vars, ram, flash, Held
  <2>2. Fits(Held') /\ Fits(index') => Both'
    BY DEF Fits
  <2>3. QED
    BY <1>3, <2>1, <2>2, RequestFits, WriteFits, BootFits DEF Next
<1>4. IInv /\ Both => WithinCapacity
  BY <1>1 DEF WithinCapacity, Fits
<1>5. QED
  BY <1>2, <1>3, <1>4, InitInv, StepInv, PTL DEF Spec

-----------------------------------------------------------------------------
(***************************************************************************)
(* A bearer note is its secret: no two notes have one.  The gate is the    *)
(* search of import_secret in RAM, so it holds as long as a boot that read *)
(* the index read every blob it names; a write that fails, or took effect  *)
(* and said it failed, does no harm, because an index is written whole.    *)
(***************************************************************************)
Loaded == \A id \in unloaded : blobs[id] = NoNote
RamSecrets == \A i, j \in Held : i # j => notes[i].secret # notes[j].secret
NotYetNamed == op.kind = "create" => op.subj \cap index = {}
UniqueInv == Loaded /\ RamSecrets /\ NotYetNamed /\ OneNotePerSecret

\* A step that puts no note in RAM and leaves the secrets there as they were.
SameSecrets == \A id \in Held' : id \in Held /\ notes'[id].secret = notes[id].secret

LEMMA RamSecretsKept == RamSecrets /\ SameSecrets => RamSecrets'
  BY DEF RamSecrets, SameSecrets

\* A step that adds nothing to the index, and gives what it names no new secret.
LEMMA FlashSecretsKept ==
    ASSUME OneNotePerSecret, index' \subseteq index,
           \A id \in index' : blobs'[id] # NoNote =>
               blobs[id] # NoNote /\ blobs'[id].secret = blobs[id].secret
    PROVE  OneNotePerSecret'
  BY DEF OneNotePerSecret

LEMMA UniqueRequest ==
    ASSUME IInv, UniqueInv, Request
    PROVE  UniqueInv'
<1>0. UNCHANGED <<blobs, index>>
  BY RequestLeavesFlash DEF flash
<1>1. OneNotePerSecret'
  BY <1>0, FlashSecretsKept DEF UniqueInv
<1>2. ASSUME NEW S \in SUBSET Ids, NEW new \in [S -> Note], Create(new),
             \A id \in S : FreshId(id),
             \A i \in S, j \in Held : new[i].secret # notes[j].secret,
             \A i, j \in S : i # j => new[i].secret # new[j].secret
      PROVE  Loaded' /\ RamSecrets' /\ NotYetNamed'
  <2>1. DOMAIN new = S
    OBVIOUS
  <2>2. \A id \in Ids : notes'[id] = IF id \in S THEN new[id] ELSE notes[id]
    BY <1>2, <2>1 DEF Create
  <2>3. \A id \in Held' : id \in S \/ id \in Held
    BY <2>2 DEF Held
  <2>4. Held' \subseteq Ids
    BY DEF Held
  <2>5. RamSecrets'
    BY <1>2, <2>2, <2>3, <2>4 DEF RamSecrets, UniqueInv
  <2>6. op'.kind = "create" /\ op'.subj = S /\ unloaded' = unloaded
    BY <1>2, <2>1 DEF Create, Call
  <2>7. QED
    BY <1>0, <1>2, <2>5, <2>6 DEF Loaded, NotYetNamed, UniqueInv, FreshId
<1>3. ASSUME SameSecrets, op' = op \/ op'.kind # "create", unloaded' = unloaded
      PROVE  Loaded' /\ RamSecrets' /\ NotYetNamed'
  BY <1>0, <1>3, RamSecretsKept DEF Loaded, NotYetNamed, UniqueInv
<1>4. ASSUME NEW id \in Held, NEW n \in Note, n.secret = notes[id].secret, Update(id, n)
      PROVE  Loaded' /\ RamSecrets' /\ NotYetNamed'
  <2>1. op'.kind # "create" /\ unloaded' = unloaded
    BY <1>4 DEF Update, Call
  <2>2. \A i \in Ids : notes'[i] = IF i = id THEN n ELSE notes[i]
    BY <1>4 DEF Update, IInv, TypeOK
  <2>3. SameSecrets
    BY <1>4, <2>2 DEF SameSecrets, Held
  <2>4. QED
    BY <1>3, <2>1, <2>3
<1>5. ASSUME NEW S \in SUBSET Ids, Remove(S)
      PROVE  Loaded' /\ RamSecrets' /\ NotYetNamed'
  <2>1. op'.kind # "create" /\ unloaded' = unloaded
    BY <1>5 DEF Remove, Call
  <2>2. \A i \in Ids : notes'[i] = IF i \in S THEN NoNote ELSE notes[i]
    BY <1>5 DEF Remove, Forgotten
  <2>3. SameSecrets
    BY <2>2 DEF SameSecrets, Held
  <2>4. QED
    BY <1>3, <2>1, <2>3
<1>6. ASSUME NEW id \in Ids, NEW s \in Secrets, NEW m \in Metas,
             NewSecret(id, s, m) \/ ImportSecret(id, s, m)
      PROVE  Loaded' /\ RamSecrets' /\ NotYetNamed'
  <2>1. PICK st \in NoteState : FreshId(id) /\ Create([i \in {id} |-> NewNote(s, st, m)])
    BY <1>6 DEF NewSecret, ImportSecret
  <2>2. \A j \in Held : j \in Ids /\ notes[j].secret # s
    BY <1>6 DEF NewSecret, ImportSecret, FreshSecret, Held
  <2>3. /\ [i \in {id} |-> NewNote(s, st, m)] \in [{id} -> Note]
        /\ [i \in {id} |-> NewNote(s, st, m)][id].secret = s
    BY DEF NewNote
  <2>4. QED
    BY <1>2, <2>1, <2>2, <2>3
<1>7. ASSUME NEW id1 \in Ids, NEW id2 \in Ids, NEW s1 \in Secrets, NEW s2 \in Secrets,
             NEW m \in Metas, NewSecretPair(id1, id2, s1, s2, m)
      PROVE  Loaded' /\ RamSecrets' /\ NotYetNamed'
  <2> DEFINE new == [i \in {id1, id2} |-> NewNote(IF i = id1 THEN s1 ELSE s2, "pending", m)]
  <2>1. FreshId(id1) /\ FreshId(id2) /\ Create(new) /\ id1 # id2 /\ s1 # s2
    BY <1>7 DEF NewSecretPair
  <2>2. \A j \in Held : j \in Ids /\ notes[j].secret # s1 /\ notes[j].secret # s2
    BY <1>7 DEF NewSecretPair, FreshSecret, Held
  <2>3. new \in [{id1, id2} -> Note] /\ new[id1].secret = s1 /\ new[id2].secret = s2
    BY <2>1 DEF NewNote
  <2> HIDE DEF new
  <2>4. QED
    BY <1>2, <2>1, <2>2, <2>3
<1>8. ASSUME NEW id \in Ids, NEW m \in Metas, Confirm(id, m) \/ Rename(id, m)
      PROVE  Loaded' /\ RamSecrets' /\ NotYetNamed'
  <2>1. PICK n \in Note : id \in Held /\ Update(id, n) /\ n.secret = notes[id].secret
    <3>1. id \in Held /\ notes[id] \in Note
      BY <1>8 DEF Confirm, Rename, InState, Held, IInv, TypeOK
    <3>2. CASE Confirm(id, m)
      <4> DEFINE n == [notes[id] EXCEPT !.state = "confirmed", !.meta = m]
      <4>1. n \in Note /\ n.secret = notes[id].secret
        BY <3>1
      <4>2. Update(id, n)
        BY <3>2 DEF Confirm
      <4>3. QED
        BY <3>1, <4>1, <4>2
    <3>3. CASE Rename(id, m)
      BY <3>1, <3>3 DEF Rename
    <3>4. QED
      BY <1>8, <3>2, <3>3
  <2>2. QED
    BY <2>1, <1>4
<1>9. ASSUME NEW id \in Ids, MarkSpent(id)
      PROVE  Loaded' /\ RamSecrets' /\ NotYetNamed'
  <2>1. id \in Held /\ notes[id] \in Note
    BY <1>9 DEF MarkSpent, InState, Held, IInv, TypeOK
  <2>2. /\ [notes[id] EXCEPT !.state = "spent"] \in Note
        /\ [notes[id] EXCEPT !.state = "spent"].secret = notes[id].secret
    BY <2>1
  <2>3. QED
    BY <1>4, <1>9, <2>1, <2>2 DEF MarkSpent
<1>10. ASSUME NEW id \in Ids, ImportSecretAgain(id)
       PROVE  Loaded' /\ RamSecrets' /\ NotYetNamed'
  <2>1. SameSecrets /\ op' = op /\ unloaded' = unloaded
    BY <1>10 DEF ImportSecretAgain, ram, SameSecrets, Held
  <2>2. QED
    BY <1>3, <2>1
<1>11. ASSUME NEW id \in Ids, Discard(id) \/ Delete(id)
       PROVE  Loaded' /\ RamSecrets' /\ NotYetNamed'
  BY <1>5, <1>11 DEF Discard, Delete
<1>12. CASE PruneSpent
  <2>1. InState("spent") \in SUBSET Ids
    BY DEF InState, Held
  <2>2. QED
    BY <1>1, <1>5, <1>12, <2>1 DEF PruneSpent, UniqueInv
<1>13. QED
  BY <1>1, <1>6, <1>7, <1>8, <1>9, <1>10, <1>11, <1>12 DEF Request, UniqueInv

\* Writes of blobs: a new note is not named yet, an update keeps the secret,
\* and a delete leaves none.
LEMMA UniqueBlobWrite ==
    ASSUME IInv, UniqueInv, NEW id \in Ids, NEW o \in Outcome,
           SaveNewNote(id, o) \/ SaveUpdate(id, o) \/ DeleteBlob(id, o)
    PROVE  UniqueInv'
<1>0. /\ index' = index /\ unloaded' = unloaded
      /\ index \subseteq Ids /\ unloaded \subseteq Ids
      /\ \A i \in Ids \ {id} : blobs'[i] = blobs[i]
  BY DEF SaveNewNote, SaveUpdate, DeleteBlob, ram, IInv, TypeOK
<1>1. id \in op.subj /\ op.kind # "idle" /\ id \notin unloaded
  <2>1. id \in op.subj /\ op.kind \in {"create", "update", "undo", "remove"}
    BY DEF SaveNewNote, SaveUpdate, DeleteBlob, IInv, OpInv
  <2>2. op.kind = "update" => id \in Held
    BY <2>1 DEF IInv, OpInv, UpdateInv, Held
  <2>3. QED
    BY <2>1, <2>2 DEF IInv, OpInv, CreateInv, RemoveInv, RamInv
<1>2. /\ id \in index /\ blobs'[id] # NoNote =>
            blobs[id] # NoNote /\ blobs'[id].secret = blobs[id].secret
      /\ SameSecrets
      /\ op'.kind = "create" => op.kind = "create" /\ op'.subj = op.subj
  <2>1. CASE SaveNewNote(id, o)
    <3>1. id \notin index
      BY <1>1, <2>1 DEF SaveNewNote, UniqueInv, NotYetNamed
    <3>2. SameSecrets
      BY <2>1 DEF SaveNewNote, UndoCreate, Forgotten, SameSecrets, Held
    <3>3. op'.kind = "create" => op'.subj = op.subj
      BY <2>1 DEF SaveNewNote, UndoCreate, Call, IInv, TypeOK, Op
    <3>4. QED
      BY <2>1, <3>1, <3>2, <3>3 DEF SaveNewNote
  <2>2. CASE SaveUpdate(id, o)
    <3>1. /\ notes[id] # NoNote /\ notes[id].secret = op.old.secret
          /\ blobs[id] # NoNote /\ blobs[id].secret = op.old.secret
      BY <1>1, <2>2 DEF SaveUpdate, IInv, OpInv, UpdateInv
    <3>2. blobs'[id] \in {blobs[id], notes[id]} /\ notes'[id] \in {notes[id], op.old}
      BY <2>2 DEF SaveUpdate, IInv, TypeOK
    <3>3. \A i \in Ids \ {id} : notes'[i] = notes[i]
      BY <2>2 DEF SaveUpdate, IInv, TypeOK
    <3>4. SameSecrets
      BY <3>1, <3>2, <3>3 DEF SameSecrets, Held
    <3>5. op'.kind # "create"
      BY <2>2, IdleType DEF SaveUpdate
    <3>6. QED
      BY <3>1, <3>2, <3>4, <3>5
  <2>3. CASE DeleteBlob(id, o)
    <3>1. blobs'[id] \in {blobs[id], NoNote}
      BY <2>3 DEF DeleteBlob, IInv, TypeOK
    <3>2. SameSecrets
      BY <2>3 DEF DeleteBlob, ram, SameSecrets, Held
    <3>3. op'.kind # "create"
      BY <2>3 DEF DeleteBlob, IInv, TypeOK, Op
    <3>4. QED
      BY <3>1, <3>2, <3>3
  <2>4. QED
    BY <2>1, <2>2, <2>3
<1>3. \A i \in index : blobs'[i] # NoNote =>
          blobs[i] # NoNote /\ blobs'[i].secret = blobs[i].secret
  BY <1>0, <1>2
<1>4. OneNotePerSecret'
  BY <1>0, <1>3, FlashSecretsKept DEF UniqueInv
<1>5. Loaded' /\ NotYetNamed'
  BY <1>0, <1>1, <1>2 DEF UniqueInv, Loaded, NotYetNamed
<1>6. QED
  BY <1>2, <1>4, <1>5, RamSecretsKept DEF UniqueInv

\* The index, written whole: what it names is in RAM, or has no blob.
LEMMA UniqueIndexWrite ==
    ASSUME IInv, UniqueInv, NEW kept \in SUBSET Ids, NEW o \in Outcome,
           IndexCreated(kept, o) \/ IndexUndone(kept, o) \/ IndexRemoved(kept, o)
    PROVE  UniqueInv'
<1>0. /\ PersistIndex(kept, o) /\ op.kind \in {"create", "undo", "remove"}
      /\ op'.kind # "create"
      /\ SameSecrets
  <2>1. UndoCreate => SameSecrets /\ op'.kind # "create"
    BY DEF UndoCreate, Forgotten, SameSecrets, Held, Call
  <2>2. UNCHANGED notes => SameSecrets
    BY DEF SameSecrets, Held
  <2>3. QED
    BY <2>1, <2>2, IdleType DEF IndexCreated, IndexUndone, IndexRemoved
<1>1. /\ op.todo = {} /\ blobs' = blobs /\ unloaded' = unloaded
      /\ index' = index \/ index' \subseteq Held \cup unloaded
  BY <1>0 DEF PersistIndex, IndexImage
<1>2. \A i \in Held : blobs[i].secret = notes[i].secret
  <2>1. ASSUME NEW i \in Held, i \in op.subj PROVE blobs[i] = notes[i]
    BY <1>0, <1>1, <2>1 DEF IInv, OpInv, CreateInv, RemoveInv, Held
  <2>2. QED
    BY <2>1 DEF IInv, RamInv
<1>3. OneNotePerSecret'
  <2>1. CASE index' = index
    BY <1>1, <2>1, FlashSecretsKept DEF UniqueInv
  <2>2. CASE index' \subseteq Held \cup unloaded
    <3>1. \A i \in index' : blobs'[i] # NoNote => i \in Held
      BY <1>1, <2>2 DEF UniqueInv, Loaded
    <3>2. QED
      BY <1>1, <1>2, <3>1 DEF UniqueInv, RamSecrets, OneNotePerSecret
  <2>3. QED
    BY <1>1, <2>1, <2>2
<1>4. Loaded' /\ NotYetNamed'
  BY <1>0, <1>1 DEF UniqueInv, Loaded, NotYetNamed
<1>5. QED
  BY <1>0, <1>3, <1>4, RamSecretsKept DEF UniqueInv

\* A boot that reads every blob holds what the index names.
LEMMA UniqueBoot ==
    ASSUME IInv, UniqueInv, "blob" \notin Faults, Restart
    PROVE  UniqueInv'
<1>1. PICK readable \in BOOLEAN : Boot(readable, {})
  BY DEF Restart, Boot
<1>2. index' = index /\ blobs' = blobs /\ op'.kind = "idle"
  BY <1>1, IdleType DEF Boot, flash
<1>3. \A i \in Held' : i \in index /\ notes'[i] = blobs[i] /\ blobs[i] # NoNote
  BY <1>1 DEF Boot, Held
<1>4. RamSecrets'
  BY <1>3 DEF RamSecrets, UniqueInv, OneNotePerSecret
<1>5. Loaded' /\ NotYetNamed'
  BY <1>1, <1>2 DEF Boot, Loaded, NotYetNamed
<1>6. OneNotePerSecret'
  BY <1>2, FlashSecretsKept DEF UniqueInv
<1>7. QED
  BY <1>4, <1>5, <1>6 DEF UniqueInv

\* Where every boot that reads the index reads every blob it names, two notes
\* the next boot loads never have one secret, whatever else fails and wherever
\* power goes (vault_import_secret, "the vault cannot hold the same one twice").
THEOREM SecretsAreUnique == "blob" \notin Faults => (Spec => []OneNotePerSecret)
<1> SUFFICES ASSUME "blob" \notin Faults PROVE Spec => []OneNotePerSecret
  OBVIOUS
<1>1. Init => UniqueInv
  BY IdleType DEF Init, UniqueInv, Loaded, RamSecrets, NotYetNamed, OneNotePerSecret, Held
<1>2. ASSUME IInv, UniqueInv, [Next]_vars PROVE UniqueInv'
  <2>1. CASE FlashWrite
    BY <1>2, <2>1, UniqueBlobWrite, UniqueIndexWrite DEF FlashWrite
  <2>2. CASE UNCHANGED vars
    BY <1>2, <2>2 DEF vars, ram, flash, UniqueInv, Loaded, RamSecrets, NotYetNamed,
                      OneNotePerSecret, Held
  <2>3. QED
    BY <1>2, <2>1, <2>2, UniqueRequest, UniqueBoot DEF Next
<1>3. UniqueInv => OneNotePerSecret
  BY DEF UniqueInv
<1>4. QED
  BY <1>1, <1>2, <1>3, InitInv, StepInv, PTL DEF Spec

-----------------------------------------------------------------------------
(***************************************************************************)
(* Vault implements Ledger, for any number of ids, secrets and notes and   *)
(* any combination of faults.                                              *)
(***************************************************************************)

USE DEF NoteState, Note, AtLeast, Backs, L!State, L!NotBefore, L!Promised, L!SameCut

\* What Durable says of one id.
LEMMA DurableOf ==
    ASSUME NEW id \in Ids
    PROVE  /\ Durable[id] = IF id \in index /\ blobs[id] # NoNote
                            THEN blobs[id].state ELSE "absent"
           /\ (Durable[id])' = IF id \in index' /\ blobs'[id] # NoNote
                               THEN blobs'[id].state ELSE "absent"
  BY DEF Durable

LEMMA LedgerInit == Init => L!Init
  BY DEF Init, L!Init, Durable

\* A request moves no note on flash; it releases the notes it removes.
LEMMA LedgerRequest ==
    ASSUME IInv, Request, NEW id \in Ids
    PROVE  L!Life(id)
<1>1. (Durable[id])' = Durable[id] /\ cut' = cut
  BY RequestLeavesFlash, DurableOf DEF flash
<1>2. CASE promise'[id] = promise[id]
  BY <1>1, <1>2 DEF L!Life, L!Unmoved
<1>3. ASSUME promise[id] = "confirmed" => Durable[id] = "spent", promise'[id] = "none"
      PROVE  L!Life(id)
  BY <1>1, <1>3 DEF L!Life, L!Release
<1>4. ASSUME NEW S \in SUBSET Ids, op = Idle, indexKnown, \A i \in S : FreshId(i),
             promise' = Released(S)
      PROVE  L!Life(id)
  <2>1. id \in S => promise[id] \notin NoteState
    BY <1>4 DEF FreshId, IInv, PromiseInv
  <2>2. promise'[id] = IF id \in S THEN "none" ELSE promise[id]
    BY <1>4 DEF Released
  <2>3. QED
    BY <1>2, <1>3, <2>1, <2>2
<1>5. ASSUME NEW S \in SUBSET Ids, op = Idle,
             \/ S \subseteq InState("pending")
             \/ S \subseteq InState("spent"),
             Remove(S)
      PROVE  L!Life(id)
  <2>1. promise'[id] = IF id \in S THEN "none" ELSE promise[id]
    BY <1>5 DEF Remove, Released
  <2>2. id \in S => (promise[id] = "confirmed" => Durable[id] = "spent")
    BY <1>5, DurableOf, IdleType DEF InState, IInv, RamInv
  <2>3. QED
    BY <1>2, <1>3, <2>1, <2>2
<1>6. ASSUME NEW i \in Ids, NEW n, Update(i, n)
      PROVE  L!Life(id)
  BY <1>2, <1>6 DEF Update
<1>7. ASSUME NEW i \in Ids, ImportSecretAgain(i)
      PROVE  L!Life(id)
  <2>1. CASE id # i
    BY <1>2, <1>7, <2>1 DEF ImportSecretAgain, IInv, TypeOK
  <2>2. CASE id = i
    <3>1. /\ promise'[id] = notes[id].state /\ notes[id] \in Note /\ id \in Held
          /\ op = Idle
      BY <1>7, <2>2 DEF ImportSecretAgain, CanCreate, Held, IInv, TypeOK
    <3>2. /\ id \in index /\ Backs(blobs[id], notes[id].state) /\ id \notin cut
          /\ blobs[id] \in Note
          /\ promise[id] \in NoteState => AtLeast(notes[id].state, promise[id])
      BY <3>1, IdleType DEF IInv, RamInv, TypeOK
    <3>3. QED
      BY <1>1, <3>1, <3>2, DurableOf DEF L!Life, L!Acknowledge
  <2>3. QED
    BY <2>1, <2>2
<1>8. CASE \E i \in Ids, s \in Secrets, m \in Metas :
              NewSecret(i, s, m) \/ ImportSecret(i, s, m)
  <2>1. PICK i \in Ids : op = Idle /\ indexKnown /\ FreshId(i) /\ promise' = Released({i})
    BY <1>8 DEF NewSecret, ImportSecret, CanCreate, Create
  <2>2. QED
    BY <1>4, <2>1
<1>9. CASE \E i, j \in Ids, s1, s2 \in Secrets, m \in Metas : NewSecretPair(i, j, s1, s2, m)
  <2>1. PICK i \in Ids, j \in Ids, s1 \in Secrets, s2 \in Secrets, m \in Metas :
           NewSecretPair(i, j, s1, s2, m)
    BY <1>9
  <2>2. /\ op = Idle /\ indexKnown /\ FreshId(i) /\ FreshId(j)
        /\ promise' = Released({i, j})
    BY <2>1 DEF NewSecretPair, CanCreate, Create
  <2>3. QED
    BY <1>4, <2>2
<1>10. CASE \E i \in Ids, m \in Metas : Confirm(i, m) \/ Rename(i, m)
  BY <1>6, <1>10 DEF Confirm, Rename
<1>11. CASE \E i \in Ids : ImportSecretAgain(i) \/ MarkSpent(i) \/ Discard(i) \/ Delete(i)
  <2>1. ASSUME NEW i \in Ids, Discard(i) \/ Delete(i) PROVE L!Life(id)
    BY <1>5, <2>1 DEF Discard, Delete
  <2>2. ASSUME NEW i \in Ids, MarkSpent(i) PROVE L!Life(id)
    BY <1>6, <2>2 DEF MarkSpent
  <2>3. QED
    BY <1>7, <1>11, <2>1, <2>2
<1>12. CASE PruneSpent
  BY <1>5, <1>12 DEF PruneSpent, InState, Held
<1>13. QED
  BY <1>8, <1>9, <1>10, <1>11, <1>12 DEF Request

\* Writing a blob stores or acknowledges that note; erasing one erases it.
LEMMA LedgerBlob ==
    ASSUME IInv, NEW i \in Ids, NEW o \in Outcome, NEW id \in Ids,
           SaveNewNote(i, o) \/ SaveUpdate(i, o) \/ DeleteBlob(i, o)
    PROVE  L!Life(id)
<1>1. index' = index /\ cut' = cut
  BY DEF SaveNewNote, SaveUpdate, DeleteBlob
<1>2. CASE id # i
  <2>1. blobs'[id] = blobs[id] /\ promise'[id] = promise[id]
    BY <1>2 DEF SaveNewNote, SaveUpdate, DeleteBlob, UndoCreate, IInv, TypeOK
  <2>2. QED
    BY <1>1, <2>1, DurableOf DEF L!Life, L!Unmoved
<1>3. CASE id = i /\ SaveNewNote(i, o)
  <2>1. promise[id] = "none" /\ promise' = promise /\ notes[id] \in Note
    BY <1>3 DEF SaveNewNote, UndoCreate, IInv, OpInv, CreateInv, TypeOK
  <2>2. blobs'[id] = blobs[id] \/ (blobs'[id] = notes[id] /\ notes[id] # NoNote)
    BY <1>3 DEF SaveNewNote, IInv, TypeOK, OpInv, CreateInv
  <2>3. CASE blobs'[id] = blobs[id]
    BY <1>1, <2>1, <2>3, DurableOf DEF L!Life, L!Unmoved
  <2>4. CASE blobs'[id] = notes[id] /\ notes[id] # NoNote /\ id \in index
    BY <1>1, <2>1, <2>4, DurableOf DEF L!Life, L!Store
  <2>5. CASE id \notin index
    BY <1>1, <2>1, <2>5, DurableOf DEF L!Life, L!Unmoved
  <2>6. QED
    BY <2>2, <2>3, <2>4, <2>5
<1>4. CASE id = i /\ SaveUpdate(i, o)
  <2>1. /\ notes[id] \in Note /\ notes[id] # NoNote /\ op.old \in Note
        /\ id \in index /\ id \notin cut /\ promise[id] # "gone"
        /\ AtLeast(notes[id].state, op.old.state)
        /\ blobs[id] \in Note /\ Backs(blobs[id], op.old.state)
        /\ promise[id] \in NoteState => AtLeast(op.old.state, promise[id])
    BY <1>4 DEF SaveUpdate, IInv, OpInv, UpdateInv, TypeOK, Op, RamInv, Held
  <2>2. CASE o.ok
    <3>1. blobs'[id] = notes[id] /\ promise'[id] = notes[id].state
      BY <1>4, <2>2 DEF SaveUpdate, Outcome, IInv, TypeOK
    <3>2. QED
      BY <1>1, <2>1, <3>1, DurableOf DEF L!Life, L!Acknowledge
  <2>3. CASE ~o.ok
    <3>1. blobs'[id] \in {blobs[id], notes[id]} /\ promise'[id] = promise[id]
      BY <1>4, <2>3 DEF SaveUpdate, IInv, TypeOK
    <3>2. QED
      BY <1>1, <2>1, <3>1, DurableOf DEF L!Life, L!Store
  <2>4. QED
    BY <2>2, <2>3
<1>5. CASE id = i /\ DeleteBlob(i, o)
  <2>1. promise[id] = "none" /\ promise' = promise
    BY <1>5 DEF DeleteBlob, IInv, OpInv, RemoveInv
  <2>2. blobs'[id] \in {blobs[id], NoNote}
    BY <1>5 DEF DeleteBlob, IInv, TypeOK
  <2>3. QED
    BY <1>1, <2>1, <2>2, DurableOf DEF L!Life, L!Unmoved, L!Erase
<1>6. QED
  BY <1>2, <1>3, <1>4, <1>5

\* An index write brings the notes it names into being, and those it no
\* longer names were not promised, or were cut.
LEMMA LedgerIndex ==
    ASSUME IInv, NEW kept \in SUBSET Ids, NEW o \in Outcome, NEW id \in Ids,
           IndexCreated(kept, o) \/ IndexUndone(kept, o) \/ IndexRemoved(kept, o)
    PROVE  L!Life(id)
<1> USE DEF PersistIndex
<1>1. /\ indexKnown /\ op.todo = {} /\ UNCHANGED <<unloaded, blobs>> /\ PersistIndex(kept, o)
      /\ op.kind \in {"create", "undo", "remove"}
  BY DEF IndexCreated, IndexUndone, IndexRemoved, IInv, OpInv
<1>2. /\ id \in op.subj => promise[id] = "none" /\ id \notin unloaded \cup cut
      /\ id \in op.subj /\ op.kind = "create" => /\ blobs[id] = notes[id] /\ notes[id] \in Note
                                                 /\ notes[id] # NoNote /\ id \in Held
      /\ id \in op.subj /\ op.kind # "create" => id \notin Held
  BY <1>1 DEF IInv, OpInv, CreateInv, RemoveInv, TypeOK, Held
<1>3. /\ id \notin op.subj => promise'[id] = promise[id]
      /\ op.kind # "create" => promise'[id] \in {promise[id], "gone"}
      /\ op.kind = "create" /\ ~o.ok => promise'[id] = promise[id]
      /\ op.kind = "create" /\ o.ok /\ id \in op.subj => promise'[id] = notes[id].state
      /\ ~o.ok => promise'[id] = promise[id]
  BY DEF IndexCreated, IndexUndone, IndexRemoved, UndoCreate, IInv, TypeOK
<1>4. blobs[id] \in Note \cup {NoNote}
  BY DEF IInv, TypeOK
<1>5. CASE ~o.done
  <2>1. index' = index /\ cut' = cut /\ promise'[id] = promise[id]
    BY <1>1, <1>3, <1>5 DEF Outcome
  <2>2. QED
    BY <1>1, <2>1, DurableOf DEF L!Life, L!Unmoved
<1>6. CASE o.done
  <2>1. /\ index' = Held \cup kept /\ cut' = (cut \cup unloaded) \ (Held \cup kept)
        /\ kept \subseteq unloaded
    BY <1>1, <1>6 DEF IndexImage
  <2>2. CASE id \in op.subj /\ op.kind = "create"
    BY <1>1, <1>2, <1>3, <2>1, <2>2, DurableOf DEF L!Life, L!Acknowledge, L!Store
  <2>3. CASE id \in op.subj /\ op.kind # "create"
    BY <1>1, <1>2, <1>3, <2>1, <2>3, DurableOf DEF L!Life, L!Erase
  <2>4. CASE id \notin op.subj /\ id \in Held
    <3>1. id \in index /\ id \notin cut
      BY <1>1, <2>4 DEF IInv, RamInv
    <3>2. QED
      BY <1>1, <1>3, <2>1, <2>4, <3>1, DurableOf DEF L!Life, L!Unmoved
  <2>5. CASE id \notin op.subj /\ id \notin Held /\ id \in kept
    <3>1. /\ promise[id] \in NoteState => Backs(blobs[id], promise[id])
          /\ promise[id] # "gone" /\ id \in index \cup cut
      BY <2>1, <2>5 DEF IInv, PromiseInv, CutInv
    <3>2. id \in index' /\ id \notin cut' /\ promise'[id] = promise[id]
      BY <1>3, <2>1, <2>5
    <3>3. CASE blobs[id] = NoNote
      BY <1>1, <3>1, <3>2, <3>3, DurableOf DEF L!Life, L!Unmoved
    <3>4. CASE blobs[id] # NoNote
      BY <1>1, <1>4, <3>1, <3>2, <3>4, DurableOf DEF L!Life, L!Store
    <3>5. QED
      BY <3>3, <3>4
  <2>6. CASE id \notin op.subj /\ id \notin Held /\ id \notin kept
    <3>1. id \notin index' /\ promise'[id] = promise[id] /\ (Durable[id])' = "absent"
      BY <1>3, <2>1, <2>6, DurableOf
    <3>2. CASE id \in cut'
      BY <3>1, <3>2 DEF L!Life, L!Displace
    <3>3. CASE id \notin cut'
      <4>1. id \notin cut \cup unloaded /\ promise[id] \notin NoteState
        BY <1>1, <2>1, <2>6, <3>3 DEF IInv, PromiseInv
      <4>2. QED
        BY <3>1, <3>3, <4>1 DEF L!Life, L!Erase
    <3>4. QED
      BY <3>2, <3>3
  <2>7. QED
    BY <2>2, <2>3, <2>4, <2>5, <2>6
<1>7. QED
  BY <1>5, <1>6

\* Every step of the vault is a step, or a stutter, of every note's life.
LEMMA LedgerStep == IInv /\ [Next]_vars => [L!Next]_(L!vars)
<1> SUFFICES ASSUME IInv, [Next]_vars PROVE [L!Next]_(L!vars)
  OBVIOUS
<1>1. CASE Request
  BY <1>1, LedgerRequest DEF L!Next
<1>2. CASE FlashWrite
  BY <1>2, LedgerBlob, LedgerIndex DEF FlashWrite, L!Next
<1>3. CASE Restart \/ UNCHANGED vars
  <2>1. blobs' = blobs /\ index' = index /\ promise' = promise /\ cut' = cut
    BY <1>3 DEF Restart, Boot, flash, vars
  <2>2. QED
    BY <2>1 DEF L!vars, Durable
<1>4. QED
  BY <1>1, <1>2, <1>3 DEF Next

\* The vault keeps what Ledger promises a host: nothing promised is lost, and
\* nothing promised as money is let go before it is durably spent.
THEOREM Refinement == Spec => ImplementsLedger
  BY LedgerInit, LedgerStep, InitInv, StepInv, PTL DEF Spec, ImplementsLedger, L!Spec
=============================================================================
