SPECIFICATION FairSpec
CONSTANTS
    Plain = {a}
    Periodic = {b, c}
    MaxDue = 2
CHECK_DEADLOCK FALSE
INVARIANTS
    TypeOK
    StopReachesEveryTask
    CancelIsLocal
PROPERTIES
    StopEnds
    PeriodicTasksEnd
