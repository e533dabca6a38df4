SPECIFICATION FairSpec
CONSTANTS
    Node = {n1}
    NoNode = NoNode
    MaxInFlight = 3
    MaxRestart = 0
PROPERTIES DialIsAllowed
CHECK_DEADLOCK FALSE
