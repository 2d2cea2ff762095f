CONSTANTS
    ann = ann
    bob = bob
    cat = cat
    c1 = c1
    c2 = c2
    Users <- Trio
    Pairs <- TwoFollowAnn
    Clients <- TwoClients
    Workers = {w1}
    Missing = Missing
    MaxRequests = 4
    MaxProfiles = 1
    MaxReads = 1
    MaxAborts = 1
    MaxGraphEvictions = 1
SPECIFICATION GraphSpec
CHECK_DEADLOCK FALSE
SYMMETRY Symmetry
INVARIANTS GraphTypeOK NoFollowerLost FollowingExact CountersExact
