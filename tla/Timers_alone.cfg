SPECIFICATION FairSpec
CONSTANTS
    Timer = {t1, t2}
    Io = {}
    NoTimer = NoTimer
    Delays = {1}
    Repeats = {0}
    Max32 = 7
    Capacity = 3
    InitialNums = {0}
    CanDelete = FALSE
    MaxCalls = 2
    Start = 1
    MaxNow = 3
PROPERTY DueTimerIsCalled
CHECK_DEADLOCK FALSE
