SPECIFICATION FairSpec
CONSTANTS
    Sender = {}
    Loop = loop
    Nobody = nobody
    Roles = {"server"}
    Protocols = {"tcp"}
    Lengths = {2}
    BufSize = 3
    SockCap = 1
    MaxBytes = 2
    MaxIn = 1
    ReadSize = 2
    CanReset = FALSE
PROPERTY BufferedDataIsSent
CHECK_DEADLOCK FALSE
