CONSTANTS
    w1 = w1
    w2 = w2
    Workers <- TwoWorkers
    Reclaimers <- TwoWorkers
    MaxJobs = 2
    BatchSize = 2
    ClaimCount = 2
    MaxLen = 1
    MaxFaults = 1
    MaxEvictions = 1
SPECIFICATION Spec
SYMMETRY Symmetry
INVARIANT RepeatOnlyAfterReclaim
PROPERTY NeverForgottenWhileRetained
CHECK_DEADLOCK FALSE
