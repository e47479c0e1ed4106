SPECIFICATION Spec
CONSTANTS
    Versions = {v1, v2}
    MaxStale = 1
    MaxStarts = 2
    Events = {"update", "interrupt", "run", "fail", "lose", "wrapper"}
INVARIANTS WrapperHasFallback
PROPERTIES OriginalKept
CHECK_DEADLOCK FALSE
