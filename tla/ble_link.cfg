SPECIFICATION Spec
CHECK_DEADLOCK FALSE
CONSTANTS
    MaxGeneration = 4
    MaxCommands = 3
    QueueDepth = 2
    Pieces = 3
INVARIANTS
    NeverSpliced
    TornTailIsOnePiece
    EveryCommandIsAccountedFor
PROPERTY
    NeverWedged
