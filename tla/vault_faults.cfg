SPECIFICATION Spec
CONSTANTS
    Ids = {i1, i2, i3}
    Secrets = {s1, s2}
    Metas = {m1}
    NoNote = NoNote
    MaxNotes = 2
    Faults <- AllFaults
SYMMETRY Symmetry
INVARIANTS
    AcknowledgedSurvives
    RemovedStaysRemoved
    SpentIsNotExportable
    RamMatchesFlash
    WithinCapacity
PROPERTIES
    UnloadedUntouched
    NamedWhole
    ImplementsLedger
