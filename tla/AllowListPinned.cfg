SPECIFICATION Spec
CONSTANTS
    Peers = {p1, p2}
    Pinned = {p1}
    BadId = BadId
    PageSize = 2
    MaxChanges = 5
    MaxFailures = 1
INVARIANTS
    PinnedStayAllowed
