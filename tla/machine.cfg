SPECIFICATION MachineSpec
CONSTANTS
    Certs = {p1, p2}
    None = None
    TransientRetry = 1
    PermanentRetry = 2
    LastDay = 3
    NumCodecs = 2
INVARIANTS LeavesNothing SecureIsTrusted TracesGone
PROPERTY NotRetriedEarly
CHECK_DEADLOCK FALSE
