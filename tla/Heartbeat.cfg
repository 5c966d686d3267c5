SPECIFICATION Spec
CONSTANTS
    Interval = 3
    Response = 2
    Limit = 2
    SendTimeout = 5
    MaxWrite = 5
    MaxSilence = 24
INVARIANTS
    TokenKept
    DetectsInTime
PROPERTIES
    AliveKept
CHECK_DEADLOCK FALSE
