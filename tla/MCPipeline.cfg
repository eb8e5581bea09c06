CONSTANTS
    e1 = e1
    e2 = e2
    p1 = p1
    w1 = w1
    malformed = malformed
    nobody = nobody
    Events = {e1}
    Publishers = {p1}
    Workers = {w1}
    Responses <- AllResponses
    Malformed = malformed
    Nobody = nobody
    MaxPublisherFaults = 1
    MaxWorkerFaults = 1
    MaxRestarts = 1
    MaxRollbacks = 2
SPECIFICATION FairSpec
CHECK_DEADLOCK FALSE
INVARIANTS
    TypeOK
    StrandedOnlyByMigration
PROPERTIES
    ImplementsDelivery
    AcceptedIsDelivered
