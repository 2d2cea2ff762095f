CONSTANTS
    ann = ann
    bob = bob
    cat = cat
    c1 = c1
    c2 = c2
    v1 = v1
    v2 = v2
    Users <- Duo
    Pairs <- BobFollowsAnn
    Authors = {ann}
    Clients <- TwoClients
    Workers <- TwoWorkers
    Missing = Missing
    MaxRequests = 1
    MaxProfiles = 0
    MaxReads = 9
    MaxGraphEvictions = 0
    MaxPosts = 2
    FeedMax = 1
    BackfillLimit = 1
    Threshold = 5
    MaxAborts = 1
    MaxCrashes = 1
    MaxFeedEvictions = 1
    MaxMishaps = 1
SPECIFICATION FairFeedSpec
CHECK_DEADLOCK FALSE
INVARIANTS FeedTypeOK HomeBounded
PROPERTIES SeenUnlessLost
