SPECIFICATION LiveSpec
CONSTANTS
    Node = {n1, n2}
    MaxUsedBalance = 2
    NoticePeriod = 1
    MaxEpoch = 2
    MaxTicketIndex = 2
    MaxOffset = 2
    TotalSupply = 2
    MaxTime = 2
INVARIANTS TypeOK IndexPaidOnce Solvent
PROPERTIES NoticeKept StepConserves ImplementsEscrow 
CHECK_DEADLOCK FALSE
