SPECIFICATION Spec
CONSTANTS
    Segments <- ThreeFrames
    Features <- AllFeatures
    MaxBuffered = 3
    AckBuffer = 1
    MaxAge = 0
    MaxResend = 1
    MaxRequest = 0
    MaxInFlight = 2
    Parallel = TRUE
INVARIANT InOrder
CHECK_DEADLOCK FALSE
