CONSTANTS
    Callers = {c1}
    NoOne = NoOne
    MaxEpoch = 6
    MaxRetry = 4
    MaxFaults = 2
    MaxCalls = 6
    Listed = TRUE
    SlowThreads = FALSE
    CloseCanFail = FALSE
SPECIFICATION SingleSpec
CHECK_DEADLOCK FALSE
INVARIANTS OneReaderFaultless ClosedAfterClose RecoveryPending
PROPERTIES HandsOffOnce CallsReturn ReconnectsOnce
