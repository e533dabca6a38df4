SPECIFICATION LiveSpec
CONSTANTS
    FastSync = TRUE
    MaxTxPerBlock = 1
    MaxBlock = 4
    MaxBalance = 2
    MaxCrash = 2
    MaxStop = 1
    MaxFail = 1
INVARIANTS TypeOK ReplicaAgrees MarkedIsApplied
PROPERTIES EveryBlockIndexed
CHECK_DEADLOCK FALSE
