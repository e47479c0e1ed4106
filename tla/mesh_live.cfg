SPECIFICATION FairSpec
CONSTANTS
    Requests = {r1}
    MaxLinks = 1
    Versions = {1}
    Events = {"stop", "mute", "badSend"}
INVARIANT NoWakeUpLost
PROPERTIES WaitsEnd KeepsPromise AnswersInTime
CHECK_DEADLOCK FALSE
