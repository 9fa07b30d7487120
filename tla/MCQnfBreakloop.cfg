SPECIFICATION QnfSpec
CONSTANTS
    Size = 8
    Safety = 2
    Extra = 8
    MinDatas <- MCMinDatas
    MaxWritten = 9
    Hdr = 1
    Packets <- MCPackets
    Snapshot = 4
    Counts <- MCLoop
    Filters <- MCNoFilter
    BlockMin = 3
    Interrupts = {"break", "signal"}
    None = None
INVARIANT
    BreakloopHeeded
