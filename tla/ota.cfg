SPECIFICATION Spec
CONSTANTS
    a = a
    b = b
    Chunks = {a, b}
    Images <- MCImages
    Signed <- MCSigned
    Factory <- MCFactory
    MaxSize = 3
INVARIANTS
    StillBoots
    DigestIsOfFlash
PROPERTY
    BootIsSwitchedWhenVerified
