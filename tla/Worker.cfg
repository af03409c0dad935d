SPECIFICATION FairSpec
CONSTANTS
    Peers = {gateway, scheduler, collector}
    Scheduler = scheduler
    LogsCollector = collector
    QueryId = {q1, q2}
    EventsQueueSize = 2
    ResultsQueueSize = 1
    MaxChannels = 3
INVARIANTS
    TypeOK
    ResponseToLastRequest
    ChannelsNotLeaked
PROPERTIES
    RequesterAnswered
