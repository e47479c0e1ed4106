SPECIFICATION FairSpec
CONSTANTS
    Total = 112
    OgReserve = 20
    ReAskReserve = 20
    OgHardCap = 1200
    ReAskMinWindow = 9
    NoHintMin = 12
    ReAskSlack = 1
    ReAskMinAsk = 8
    ConnectTimeout = 4
    RetryMin = 8
    RetryPause = 3
    NotifyTimeout = 6
    DrainTime = 20
    KillTime = 20
    AnswerMargin = 4
    WatchdogMargin = 2
    WatchdogMin = 4
    Waits = {0, 2, 70}
    Hints = {0, 19, 100}
INVARIANTS InTime NeverWorse AnswerIsHeard
PROPERTIES ReAskKept AlwaysEnds
CHECK_DEADLOCK FALSE
