CONSTANTS
    w1 = w1
    w2 = w2
    Workers <- TwoWorkers
    Reclaimers <- NoWorker
    MaxJobs = 1
    BatchSize = 1
    ClaimCount = 1
    MaxLen = 1
    MaxFaults = 1
    MaxEvictions = 0
SPECIFICATION FairSpec
PROPERTIES EveryJobHandled
CHECK_DEADLOCK FALSE
