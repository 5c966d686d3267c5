SPECIFICATION HSpec
CONSTANTS
    NoId = NoId
    Ids = {i1, i2}
    MaxBytes = 2
    MaxQueue = 1
    LossyAir = FALSE
    MaxLate = 0
INVARIANTS
    OldStreamsClose
CHECK_DEADLOCK FALSE
