CONSTANTS
    Conns = {k1}
    Timers = {t1, t2}
    Tk = Tk
    Own = {t1, t2, Tk}
    NoOne = NoOne
    Addr <- OwnAddress
    MaxEpoch = 3
    MaxRetry = 2
    MaxFaults = 0
    MaxLocal = 1
    SlowThreads = FALSE
SPECIFICATION SettledSpec
CHECK_DEADLOCK FALSE
INVARIANTS TypeOK StopCloses
PROPERTIES IdleCloses PatientIsServed
