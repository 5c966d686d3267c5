SPECIFICATION FairSpec
CONSTANTS
    NoId = NoId
    Ids = {i1, i2}
    MaxBytes = 1
    MaxQueue = 1
    LossyAir = TRUE
    MaxLate = 0
INVARIANTS
    TypeOK
    ResumeSound
    NeverBusyForever
PROPERTIES
    Recovers
CHECK_DEADLOCK FALSE
