SPECIFICATION Spec
CONSTANTS
    Timer = {t1, t2, t3}
    Io = {c}
    NoTimer = NoTimer
    Delays = {0, 1, 2}
    Repeats = {7}
    Max32 = 7
    Capacity = 3
    InitialNums = {0, 2}
    CanDelete = TRUE
    MaxCalls = 3
    Start = 3
    MaxNow = 6
CHECK_DEADLOCK FALSE
INVARIANTS
    TypeOK
    NoDanglingTimer
    CountCoversHeap
    ReadClockIsBehind
