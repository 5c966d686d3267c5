SPECIFICATION Spec
CONSTANTS
    NoId = NoId
    Ids = {i1, i2, i3}
    MaxBytes = 2
    MaxQueue = 2
    LossyAir = TRUE
    MaxLate = 0
SYMMETRY IdSymmetry
INVARIANTS
    AttachedAgree
CHECK_DEADLOCK FALSE
