SPECIFICATION FairSpec
CONSTANTS
    Peers = {p1, p2, p3}
    Pinned = {p1}
    BadId = BadId
    PageSize = 1
    MaxChanges = 5
    MaxFailures = 1
INVARIANTS
    TypeOK
    AllowFollowsRegistered
    NoneMissed
PROPERTIES
    CatchesUp
