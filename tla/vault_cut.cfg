SPECIFICATION Spec
CONSTANTS
    Ids = {i1, i2, i3}
    Secrets = {s1, s2, s3}
    Metas = {m1}
    NoNote = NoNote
    MaxNotes = 2
    Faults <- BadRead
SYMMETRY Symmetry
INVARIANT
    OnlyRemovedDeliberately
