SPECIFICATION Spec
CONSTANTS
    Requests = {r1}
    MaxLinks = 2
    Versions = {1}
    Events = {}
PROPERTIES WaitsForConnectInFlight
CHECK_DEADLOCK FALSE
