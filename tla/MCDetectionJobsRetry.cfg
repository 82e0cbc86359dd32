SPECIFICATION FairSpec
CONSTANTS
    w1 = w1
    w2 = w2
    j1 = j1
    j2 = j2
    Workers = {w1, w2}
    Jobs = {j1}
    Uncascaded = {}
    MaxAttempts = 3
    LeaseTicks = 2
    BackoffTicks = 1
    BackoffMaxTicks = 3
    NoJob = NoJob
PROPERTIES
    LiveLeaseIsExclusive
    
    EveryJobSettles
