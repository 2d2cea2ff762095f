CONSTANTS
    ann = ann
    bob = bob
    cat = cat
    c1 = c1
    c2 = c2
    v1 = v1
    v2 = v2
    Users <- Trio
    Pairs <- TwoFollowAnn
    Authors = {ann, bob}
    Clients <- TwoClients
    Workers <- OneWorker
    Missing = Missing
    MaxRequests = 2
    MaxProfiles = 1
    MaxReads = 9
    MaxGraphEvictions = 1
    MaxPosts = 2
    FeedMax = 1
    BackfillLimit = 1
    Threshold = 1
    MaxAborts = 1
    MaxCrashes = 1
    MaxFeedEvictions = 1
    MaxMishaps = 1
SPECIFICATION FeedSpec
CHECK_DEADLOCK FALSE
SYMMETRY Symmetry
INVARIANTS NoMissedPost MergedUntilUnfollow ReadYourWrites
