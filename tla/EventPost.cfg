SPECIFICATION FairSpec
CONSTANTS
    Posters = {p1, p2}
    MaxPosts = 2
    MaxWakeups = 1
    PipeCap = 2
    MaxEvents = 2
    CanStop = TRUE
    Unwritten = Unwritten
INVARIANTS
    TypeOK
    TokenBalance
    EmptyPopNeedsWakeup
    OverrunOnlyUnderBacklog
    OrderedUnlessRaced
PROPERTIES
    ImplementsPostQueue
    PostReturns
    HandedOverIsExecuted
CHECK_DEADLOCK FALSE
