SPECIFICATION FairSpec
CONSTANTS
    Peers = {p1, p2}
    MaxBuffered = 2
    MaxIds = 3
    QueryId = {q1, q2}
    NoQuery = NoQuery
    QueriesQueueSize = 1
    EventsQueueSize = 1
INVARIANTS
    TypeOK
    ResultMatchesQuery
    QueryIdsAreOpenRequests
PROPERTIES
    EveryQuerySettled
