SPECIFICATION TxFair
CONSTANTS
    Size = 7
    Safety = 2
    Margin = 2
    Sizes <- MCSizes
    MaxQueued = 22
INVARIANTS
    TxTypeOK
    NothingUncommittedSent
    PendingIntact
    FreeSpaceReal
    StopDrains
PROPERTY
    SpaceComes
CHECK_DEADLOCK FALSE
