SPECIFICATION FairSpec
CONSTANTS
    a1 = a1
    a2 = a2
    a3 = a3
    i1 = i1
    i2 = i2
    k1 = k1
    k2 = k2
    Addrs <- MCAddrs
    NoAddr = NoAddr
    Ids <- MCIds
    NoId = NoId
    Home <- MCHome
    Wanted = i1
    Movers = {i1}
    Conns <- MCConns
    NoConn = NoConn
    MaxMishaps = 3
    Handler = "later"
INVARIANTS
    Owned
    TableCurrent
    RightServer
PROPERTIES
    Reconnects
CHECK_DEADLOCK FALSE
