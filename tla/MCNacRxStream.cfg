CONSTANTS
    Size = 12
    Safety = 4
    Extra = 12
    MinDatas <- MCMinDatas
    MaxWritten = 30
SPECIFICATION Spec
INVARIANTS
    TypeOK
    WindowIntact
    UnreadIntact
    LimitBehindBottom
PROPERTIES
    LimitMonotone
