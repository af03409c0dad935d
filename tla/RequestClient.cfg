SPECIFICATION ClientFairSpec
CONSTANTS
    Peers = {p1, p2, p3}
    MaxBuffered = 2
    MaxIds = 5
INVARIANTS
    ClientTypeOK
    OneOwnAnswer
    OneStage
    LookupArmed
    PushNeverFails
    ClientInv
PROPERTIES
    ImplementsService
    EveryRequestResolved
