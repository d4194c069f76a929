CONSTANTS
    rx = rx
    Tk = Tk
    Kind <- OneEach
    MaxPartial = 1
    History = 4
    MaxShown = 3
    MaxChunk = 2
    MaxFed <- FedBounds
    MaxEvents = 2
    Paths = {f1, f2}
    Off = Off
SPECIFICATION ApartSpec
CHECK_DEADLOCK FALSE
INVARIANTS TypeOK RowsAreLines NothingLost ShownInOrder LogFollowsConfig
