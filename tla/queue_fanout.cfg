CONSTANTS
    w1 = w1
    w2 = w2
    Workers <- TwoWorkers
    Reclaimers <- TwoWorkers
    MaxJobs = 2
    BatchSize = 2
    ClaimCount = 1
    MaxLen = 2
    MaxFaults = 1
    MaxEvictions = 0
SPECIFICATION FairSpec
INVARIANTS TypeOK AckedHandled RetainedIsRecoverable
PROPERTIES DeliverySpec EveryJobHandled
CHECK_DEADLOCK FALSE
