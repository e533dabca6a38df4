SPECIFICATION FairSpec
CONSTANTS
    Segments <- ThreeFrames
    Features <- AllFeatures
    MaxBuffered = 3
    AckBuffer = 1
    MaxAge = 0
    MaxResend = 1
    MaxRequest = 0
    MaxInFlight = 2
    Parallel = FALSE
INVARIANTS TypeOK Recoverable
PROPERTIES ImplementsStream CompleteIsEmitted NoStall
CHECK_DEADLOCK FALSE
