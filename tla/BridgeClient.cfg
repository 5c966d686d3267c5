SPECIFICATION FairSpec
CONSTANTS
    NoSession = NoSession
    Conns = {k1, k2, k3}
    Sessions = {g1, g2}
    Limit = 2
INVARIANTS
    TypeOK
    EndpointCurrent
    NoOrphan
PROPERTIES
    Settles
    Renewed
