SPECIFICATION Spec
CONSTANTS
    Requests = {r1}
    MaxLinks = 2
    Versions = {2}
    Events = {"abort", "rateLimit"}
INVARIANTS NeverTwiceOnALink VersionOfItsLink NoLeakedEntries
PROPERTIES AnswerIsTaken
CHECK_DEADLOCK FALSE
