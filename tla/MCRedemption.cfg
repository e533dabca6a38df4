SPECIFICATION LiveSpec
CONSTANTS
    Ticket <- Reopened
    Redeemer = {r1,r2}
    MaxEpoch = 2
    MaxRound = 2
    MaxCrash = 1
INVARIANTS TypeOK RedeemedIsPaid
PROPERTIES  PaidLeaves
CHECK_DEADLOCK FALSE
