SPECIFICATION RelaySpec
CONSTANTS
    Conns = {c1, c2}
    MaxInFlight = 1
    MaxChunks = 2
    MaxFrame = 3
    MaxText = 5
INVARIANTS SplitsTheSame SlotsCounted
PROPERTIES CleanEndIsComplete TasksEnd
CHECK_DEADLOCK FALSE
