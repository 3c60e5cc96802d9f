SPECIFICATION Spec
CONSTANTS
    Hold = 3
    Bounce = 1
    Debounce = 2
    Timeout = 4
    MaxPoll = 2
INVARIANTS
    GrantedIsHeld
    DeniedIsRefused
    NeverLingers
