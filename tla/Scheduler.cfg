SPECIFICATION SchedulerSpec
CONSTANTS
    Peers = {p1, p2}
    MaxProbes = 1
    MaxQueries = 2
    MaxOutbound = 2
    MaxInbound = 1
    MaxPending = 2
    ProbesQueueSize = 1
    EventsQueueSize = 1
INVARIANTS
    SchedulerTypeOK
    NoProbeWhileConnected
    ProbesAccounted
    OneLookupPerPeer
    ConnectedIsTrue
PROPERTIES
    EveryProbeAnswered
