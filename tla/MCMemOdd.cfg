SPECIFICATION MemSpec
CONSTANTS
    Pieces <- MCPieces
    High <- MCHigh
    Piece = 2
    TabSize = 6
    AlignTo = 2
    Cards = 3
    CardSize = 3
    Sizes <- MCOddSizes
    MinSize = 1
    Units <- MCUnits
    NoUnit = NoUnit
    Asks <- MCAsks
INVARIANT
    AreasKept
CHECK_DEADLOCK FALSE
