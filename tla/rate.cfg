CONSTANTS
    Window = 6
    Second = 2
    Limit = 2
    Skew = 1
    MaxTime = 18
    MaxCalls = 5
    MaxFaults = 1
SPECIFICATION RateSpec
INVARIANTS RateTypeOK WindowBound RetryHonest
CHECK_DEADLOCK FALSE
