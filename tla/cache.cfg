CONSTANTS
    p1 = p1
    p2 = p2
    p3 = p3
    Requests <- Three
    NoOwner = NoOwner
    MaxRetries = 2
    MaxLapses = 1
SPECIFICATION FairCacheSpec
INVARIANTS CacheTypeOK LoadersBounded ExistingIsFound
PROPERTY EveryViewAnswered
