SPECIFICATION QnfSpec
CONSTANTS
    Size = 8
    Safety = 2
    Extra = 8
    MinDatas <- MCMinDatas
    MaxWritten = 12
    Hdr = 1
    Packets <- MCAllPackets
    Snapshot = 4
    Counts <- MCCounts
    Filters <- MCFilters
    BlockMin = 3
    Interrupts = {}
    None = None
INVARIANTS
    QnfTypeOK
    FrameSync
    LastPacketIntact
    CountHonoured
PROPERTIES
    ImplementsFifo
