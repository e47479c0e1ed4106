SPECIFICATION FairSpec
CONSTANTS
    Versions = {v1, v2}
    MaxStale = 1
    MaxStarts = 1
    Events = {"update", "interrupt", "run", "wrapper"}
PROPERTIES Settles
CHECK_DEADLOCK FALSE
