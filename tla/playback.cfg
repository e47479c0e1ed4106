SPECIFICATION PlaySpec
CONSTANTS
    Plays = {1, 2}
    OpenFailWindow = 1
    StallWindow = 2
    MaxSessions = 2
    MaxUnread = 1
INVARIANTS FailedOnce PublishedIsServed
PROPERTIES BypassEnds
CHECK_DEADLOCK FALSE
