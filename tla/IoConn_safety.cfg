SPECIFICATION Spec
CONSTANTS
    Sender = {s1}
    Loop = loop
    Nobody = nobody
    Roles = {"client", "server"}
    Protocols = {"tcp", "ssl"}
    Lengths = {1, 2, 4}
    BufSize = 2
    SockCap = 2
    MaxBytes = 5
    MaxIn = 2
    ReadSize = 2
    CanReset = TRUE
INVARIANTS TypeOK StreamIntact ClosedOnce LockIsReturned OnlyRacesCrash
CHECK_DEADLOCK FALSE
