SPECIFICATION Spec
CONSTANTS
    Ticket <- TwoEpochs
    Redeemer = {r1}
    MaxEpoch = 2
    MaxRound = 2
    MaxCrash = 1
INVARIANTS  NothingAcceptableDropped 
CHECK_DEADLOCK FALSE
