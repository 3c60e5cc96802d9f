SPECIFICATION FairSpec
CHECK_DEADLOCK FALSE
CONSTANTS
    ReplyLen = 2
    RingSize = 2
    RxDepth = 1
    TxDepth = 1
    MaxLines = 3
    MaxEdges = 3
INVARIANTS
    RepliesAreContiguous
    EveryLineIsAccountedFor
PROPERTY
    EveryLineIsSettled
