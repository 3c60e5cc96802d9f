SPECIFICATION Spec
CONSTANTS
    Notes = {n1, n2}
    MaxBoots = 3
    None = None
SYMMETRY NoteSymmetry
INVARIANTS
    KeptUntilWiped
    WipedNeverComesBack
    IdentityIsRemembered
    CrumbNamesWhatDidNotReturn
