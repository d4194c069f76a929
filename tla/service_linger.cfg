CONSTANTS
    Conns = {k1, k2}
    Timers = {t1}
    Tk = Tk
    Own = {t1, Tk}
    NoOne = NoOne
    Addr <- OwnAddress
    MaxEpoch = 3
    MaxRetry = 1
    MaxFaults = 0
    MaxLocal = 0
    SlowThreads = FALSE
SPECIFICATION KeptSpec
CHECK_DEADLOCK FALSE
PROPERTIES ConsumerIsServed
