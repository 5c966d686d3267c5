SPECIFICATION Spec
CONSTANTS
    Procs = {p1, p2}
    Host = p1
    ServerIDs = {s1, s2}
    NoServerID = NoServerID
    Attempts = 4
    Tries = 2
    Conns = {k1, k2}
    NoConn = NoConn
    MaxVisits = 2
INVARIANTS
    IdentityKept
    Accounted
PROPERTIES
    AdvertisesAgain
CHECK_DEADLOCK FALSE
