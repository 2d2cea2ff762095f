CONSTANTS
    ann = ann
    p1 = p1
    p2 = p2
    Users <- One
    Requests <- TwoRequests
    MaxLogins = 3
    Ttl = 2
    MayForget = TRUE
SPECIFICATION SessionSpec
CHECK_DEADLOCK FALSE
SYMMETRY Symmetry
INVARIANTS SessionTypeOK ListedUnlessStray
PROPERTY AuthSpec
