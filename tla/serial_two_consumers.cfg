CONSTANTS
    Callers = {c1, c2}
    NoOne = NoOne
    MaxEpoch = 3
    MaxRetry = 1
    MaxFaults = 0
    MaxCalls = 1
    Listed = TRUE
    SlowThreads = FALSE
    CloseCanFail = FALSE
SPECIFICATION PluggedSpec
CHECK_DEADLOCK FALSE
INVARIANTS OneReader
