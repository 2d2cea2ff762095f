CONSTANTS
    Posts <- FourPosts
    TimeOf <- Times
    Second = 2
    Latest = 10
    FannedOut <- Friends
    Celebrity <- Stars
    PageSize = 2
    MaxSize = 3
    MaxEvictions = 1
    MaxFailures = 1
SPECIFICATION FairReadSpec
INVARIANTS ReadTypeOK NothingSkipped SeenToTheEnd
PROPERTY ScrollEnds
