SPECIFICATION Spec
CONSTANTS
    Ticket = {t1, t2}
    Stake = 2
    QueueSize = 1
    MaxHandler = 1
INVARIANTS UnrealizedIsStored
CHECK_DEADLOCK FALSE
