SPECIFICATION Spec
CONSTANTS
    ChordPolls = 2
    BrowseTimeout = 2
    QrTimeout = 4
    SleepTimeout = 4
INVARIANTS
    SpentPressIsSpent
    SecretComesDown
    GrantedButtonIsHealthy
