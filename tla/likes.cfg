CONSTANTS
    c1 = c1
    c2 = c2
    c3 = c3
    ann = ann
    bob = bob
    Clients <- ThreeClients
    Users <- Duo
    NoToken = NoToken
    WaitMs = 0
    MaxLikes = 3
    MaxUnlikes = 1
    MaxAborts = 1
    MaxEvictions = 1
SPECIFICATION FairLikesSpec
CHECK_DEADLOCK FALSE
INVARIANTS LikesTypeOK LikeCountExact LikersExact MutualExclusion
PROPERTY EveryLikeEnds
