CONSTANTS
    Conns = {k1, k2}
    NoConn = NoConn
    Addr <- OwnAddress
    MaxError = 1
    SlowThreads = FALSE
    Stuck = {k2}
SPECIFICATION FairSpec
CHECK_DEADLOCK FALSE
INVARIANTS TypeOK ServedIsListed StopReaps
PROPERTIES Goodbye StopReturns
