SPECIFICATION FairSpec
CONSTANTS
    Sizes = {2, 4, 7}
    SizeLimit = 6
    Overhead = 1
    LogsQueueSize = 1
    CollectedQueueSize = 1
    EventsQueueSize = 1
    GatewayLogs = {2}
    MaxLogs = 2
INVARIANTS
    TypeOK
    AnnouncedAreSaved
    CollectedAreAuthentic
PROPERTIES
    AcksAdvance
    LogsSettle
