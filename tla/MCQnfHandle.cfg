SPECIFICATION HandleSpec
SYMMETRY MCSymmetry
CONSTANTS
    Fds <- MCFds
    Addrs <- MCAddrs
    Handles = {p, q}
    MaxOwn = 1
    Failures <- MCFailures
    Serial = TRUE
INVARIANTS
    HandleTypeOK
    PbmLive
    CardQuiet
    ActiveOwnsFd
    RingsStay
PROPERTY
    OwnFilesStay
