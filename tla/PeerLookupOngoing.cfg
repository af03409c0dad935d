SPECIFICATION Spec
CONSTANTS
    Peers = {p1, p2}
    MaxProbes = 1
    MaxQueries = 2
    MaxOutbound = 1
    MaxInbound = 1
    MaxPending = 2
INVARIANTS
    OngoingQueriesOngoing
