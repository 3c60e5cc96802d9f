SPECIFICATION Spec
CONSTANTS
    Ids = {i1, i2, i3}
    Secrets = {s1, s2}
    Metas = {m1, m2}
    NoNote = NoNote
    MaxNotes = 3
    Faults <- Readable
SYMMETRY Symmetry
INVARIANTS
    OneNotePerSecret
