SPECIFICATION FairSpec
CONSTANTS
    Window = 2
    Threshold = 2
    MaxPayload = 1
    MaxWire = 1
    Scenarios <- UploadsOrReplies
INVARIANTS
    TypeOK
    EOFExact
    WindowConserved
    ControlShare
PROPERTIES
    Transfers
    HalfClose
    BothEndsRelease
CHECK_DEADLOCK FALSE
