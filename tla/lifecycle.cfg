SPECIFICATION Spec
CONSTANTS
    MaxChanges = 2
    SavesFail = FALSE
    RestoreFails = FALSE
    Triggers = {"ctrl-c", "console-close", "quit", "patch-refused"}
    Hangs = {"ipc"}
INVARIANTS NativeBeforeStop GoneWhenStopped LastAnswersKept NeverStuck
PROPERTIES FileOnlyAdvances EndComesNearer
CHECK_DEADLOCK FALSE
