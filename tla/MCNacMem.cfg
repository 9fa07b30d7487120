SPECIFICATION MemFair
CONSTANTS
    Pieces <- MCPieces
    High <- MCHigh
    Piece = 2
    TabSize = 6
    AlignTo = 4
    Cards = 2
    CardSize = 8
    Sizes <- MCSizes
    MinSize = 1
    Units <- MCUnits
    NoUnit = NoUnit
    Asks <- MCAsks
INVARIANTS
    MemTypeOK
    AreasSound
    AreasKept
    LentOnce
    NothingLost
PROPERTY
    InitEnds
CHECK_DEADLOCK FALSE
