SPECIFICATION FairSpec
CONSTANTS
    Timer = {t1, t2, t3}
    Io = {}
    NoTimer = NoTimer
    Delays = {1, 2}
    Repeats = {0, 2, 7}
    Max32 = 7
    Capacity = 3
    InitialNums = {0}
    CanDelete = FALSE
    MaxCalls = 3
    Start = 1
    MaxNow = 4
CHECK_DEADLOCK FALSE
INVARIANTS
    WaitsOnce
    NeverEarlyNorTooOften
    LastingTimerKeepsLoopAlive
PROPERTIES
    DueTimerRuns
