SPECIFICATION Spec
CONSTANTS
    ReplayWindow = 4
    RxWindow = 3
    LiveWindow = 3
    Sizes = {2}
    InitFlight = 2
    MaxFlight = 3
    FastAcks = 1
    MaxSeq = 4
    MaxData = 2
    MaxAcks = 1
    MaxHellos = 1
INVARIANTS
    ExactDelivery
    ReplayCovers
    FragmentsExact
    NoReplayError
    MemoryBound
    RetransmitArmed
    GapFillFits
PROPERTIES
    StreamSpec
