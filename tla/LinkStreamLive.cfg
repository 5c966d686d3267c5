SPECIFICATION FairSpec
CONSTANTS
    ReplayWindow = 2
    RxWindow = 2
    LiveWindow = 2
    Sizes = {2}
    InitFlight = 1
    MaxFlight = 2
    FastAcks = 1
    MaxSeq = 3
    MaxData = 1
    MaxAcks = 1
    MaxHellos = 1
PROPERTIES
    Delivered
