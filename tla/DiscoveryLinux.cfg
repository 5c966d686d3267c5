SPECIFICATION FairSpec
CONSTANTS
    a1 = a1
    a2 = a2
    a3 = a3
    i1 = i1
    i2 = i2
    k1 = k1
    k2 = k2
    Addrs <- MCAddrs
    NoAddr = NoAddr
    Ids <- MCIds
    NoId = NoId
    Home <- MCHome
    Wanted = i1
    Movers = {}
    Conns <- MCConns
    NoConn = NoConn
    MaxMishaps = 0
    Handler = "inside"
PROPERTIES
    CloseReturns
CHECK_DEADLOCK FALSE
