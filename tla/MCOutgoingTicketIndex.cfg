SPECIFICATION LiveSpec
CONSTANTS
    Task = {t1, t2}
    MaxEpoch = 2
    MaxIndex = 2
    MaxBehind = 2
    MaxCrash = 1
INVARIANTS TypeOK
PROPERTIES  FlushCatchesUp
CHECK_DEADLOCK FALSE
