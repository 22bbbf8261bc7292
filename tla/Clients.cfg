SPECIFICATION FairSpec
CONSTANTS
    Tasks = {t1}
    MaxOpens = 2
    MaxFrames = 1
    Pings = {TRUE, FALSE}
INVARIANTS StartIsSafe ClientStateIsTrue EndIsLast
PROPERTIES TaskEndsOnce
CHECK_DEADLOCK FALSE
