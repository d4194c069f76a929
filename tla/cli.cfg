CONSTANTS
    Conns = {k1, k2}
    Main = Main
    Own = {Main}
    NoOne = NoOne
    Addr <- OwnAddress
    MaxEpoch = 3
    MaxRetry = 2
    MaxFaults = 0
    SlowThreads = FALSE
SPECIFICATION SettledSpec
CHECK_DEADLOCK FALSE
SYMMETRY Symmetric
INVARIANTS TypeOK IdleClosed EndCloses PatientIsServed
