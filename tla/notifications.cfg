CONSTANTS
    s1 = s1
    Sockets <- OneSocket
    KindOf <- TwoKinds
    Replay = 1
    MaxLen = 1
    MaxEvents = 2
    MaxFaults = 2
SPECIFICATION FairNotifSpec
INVARIANTS NotifTypeOK NoneMissed KarmaFromRows
PROPERTY ArchivedUnlessFailed
