SPECIFICATION FairSpec
CONSTANTS
    n1 = n1
    n2 = n2
    NoteIds = {n1, n2, n3}
    Stored <- MCStored
    Commands <- MCCommands
    Nil = Nil
INVARIANTS
    SourceIsCaller
    DisclosedIsSelected
PROPERTIES
    ActsAsShown
    DisclosedIsShown
    EveryCommandEnds
    ImplementsCustodian
