SPECIFICATION FairSpec
CONSTANTS
    Conn = {c1, c2}
    NoConn = NoConn
    Workers = {0, 1, 2}
    Protocols = {"tcp", "ssl"}
    MaxSent = 2
    BufSize = 2
    Flights = 2
    MaxWakeups = 1
INVARIANTS DataReachesHandle WorkersShareEvenly
PROPERTIES StartsAndServes
CHECK_DEADLOCK FALSE
