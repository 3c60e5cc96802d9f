SPECIFICATION StreamSpec
CHECK_DEADLOCK FALSE
CONSTANTS
    Symbols = {0, 1, 2}
    MaxInput = 8
    BufSize = 3
    ByteBase = 3
    Eol = {2}
    BlockLen = 4
    LenBytes = 2
    MaxInt = 51153
    MaxDepth = 2
    AmountBuf = 7
    LimbBase = 3
    UrlBuf = 320
    Bech32Url = 232
INVARIANTS
    PiecesDoNotMatter
    CodecsAreExact
    ShownIsWhatIs
