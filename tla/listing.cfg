SPECIFICATION WalkSpec
CHECK_DEADLOCK FALSE
CONSTANTS
    None = None
    n1 = n1
    n2 = n2
    n3 = n3
    n4 = n4
    Notes = {n1, n2, n3, n4}
    Size <- MCSize
    Cap = 90
    HeadLen = 18
    NextLen = 9
    TagLen = 9
    ErrorLen = 30
    WordSize = 4
    MaxLimit = 5
    MaxChanges = 2
SYMMETRY Symmetry
INVARIANTS
    PagesTellAll
    WalkMissesOnlyWhatMoved
