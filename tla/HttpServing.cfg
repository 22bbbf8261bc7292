SPECIFICATION Spec
CONSTANTS
    Kinds = {"get", "post", "upgrade", "last"}
    MaxRequests = 2
    Ops = {"text", "close", "ping"}
    Lengths = {0, 125, 126, 65535, 65536}
    MaxFrames = 2
INVARIANTS AnswersAreEarned WsLifecycle FramesArriveWhole
CHECK_DEADLOCK FALSE
