SPECIFICATION HandleSpec
SYMMETRY MCSymmetry
CONSTANTS
    Fds <- MCFds
    Addrs <- MCAddrs
    Handles = {p, q}
    MaxOwn = 1
    Failures = {}
    Serial = TRUE
INVARIANT
    ClosedIsClean
