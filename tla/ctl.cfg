CONSTANTS
    Ports = {p1, p2}
    Foreign = {p2}
    None = None
    Requests = {1, 2, 3}
    MaxCommands = 2
SPECIFICATION WrittenSpec
CHECK_DEADLOCK FALSE
INVARIANTS CtlTypeOK OkMeansDone LaterWaits
