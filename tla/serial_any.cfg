CONSTANTS
    Callers = {c1, c2}
    NoOne = NoOne
    MaxEpoch = 2
    MaxRetry = 2
    MaxFaults = 1
    MaxCalls = 2
    Listed = TRUE
    SlowThreads = TRUE
    CloseCanFail = TRUE
SPECIFICATION Spec
CHECK_DEADLOCK FALSE
SYMMETRY Symmetric
INVARIANTS TypeOK ConnectedIsOpen ConnectedIsRead
PROPERTIES DropsNotified WriteSafe
