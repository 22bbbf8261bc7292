SPECIFICATION Spec
CONSTANTS
    MaxIo = 3
    MaxShared = 2
    MaxFd = 2
    BackEnd = {"epoll", "poll", "select"}
INVARIANTS MarkedIsListed WatchedAsAsked
PROPERTIES OwnEventsOnly
CHECK_DEADLOCK FALSE
