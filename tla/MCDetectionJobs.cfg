SPECIFICATION Spec
CONSTANTS
    w1 = w1
    w2 = w2
    j1 = j1
    j2 = j2
    Workers = {w1, w2}
    Jobs = {j1, j2}
    Uncascaded = {j2}
    MaxAttempts = 2
    LeaseTicks = 2
    BackoffTicks = 1
    BackoffMaxTicks = 1
    NoJob = NoJob
SYMMETRY Interchangeable
INVARIANTS
    ResultsOnceIffDone
    TokensNotShared
    NoPrematureFailure
PROPERTY ImplementsDetectionSpec
