SPECIFICATION FairSpec
CONSTANTS
    Index = {0, 1, 2}
    Stake = 4
    Caller = {c1}
    QueueSize = 2
    MaxAggregation = 2
    MaxRedemption = 2
    MaxCrash = 1
INVARIANTS TypeOK PaidOnce NothingLost
PROPERTIES AggregationEnds
CHECK_DEADLOCK FALSE
