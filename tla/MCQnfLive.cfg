SPECIFICATION QnfFair
CONSTANTS
    Size = 8
    Safety = 2
    Extra = 8
    MinDatas <- MCMinDatas
    MaxWritten = 10
    Hdr = 1
    Packets <- MCPackets
    Snapshot = 2
    Counts <- MCLoop
    Filters <- MCNoFilter
    BlockMin = 3
    Interrupts = {"break", "signal"}
    None = None
PROPERTIES
    ShutdownReturns
    RecordHandled
