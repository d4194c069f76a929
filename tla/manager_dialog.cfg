CONSTANTS
    Ports = {p1, p2, p3}
    Foreign = {p3}
    Maps = {m1, m2}
    None = None
    Requests = {r1}
    Latecomers = {}
    MaxFaults = 1
SPECIFICATION HistorySpec
CHECK_DEADLOCK FALSE
SYMMETRY Symmetric
INVARIANTS UniquePorts
