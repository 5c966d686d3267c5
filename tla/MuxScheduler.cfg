SPECIFICATION FairSpec
CONSTANTS
    NoId = NoId
    Ids = {i1, i2}
    MaxStreams = 2
    MaxOut = 2
INVARIANTS
    NoLostWakeup
    SchedulerFits
    ReleaseComes
PROPERTIES
    Flows
CHECK_DEADLOCK FALSE
