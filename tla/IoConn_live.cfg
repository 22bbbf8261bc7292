SPECIFICATION FairSpec
CONSTANTS
    Sender = {s1}
    Loop = loop
    Nobody = nobody
    Roles = {"client", "server"}
    Protocols = {"tcp"}
    Lengths = {1, 2}
    BufSize = 2
    SockCap = 1
    MaxBytes = 2
    MaxIn = 0
    ReadSize = 2
    CanReset = TRUE
PROPERTIES CallReturns ClosedIsReleased
CHECK_DEADLOCK FALSE
