SPECIFICATION FairSpec
CONSTANTS
    Node = {n1}
    NoNode = NoNode
    MaxInFlight = 3
    MaxRestart = 2
INVARIANTS TypeOK   IndexFollows
 
CHECK_DEADLOCK FALSE
