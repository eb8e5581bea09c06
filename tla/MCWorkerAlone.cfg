CONSTANTS
    e1 = e1
    e2 = e2
    w1 = w1
    w2 = w2
    malformed = malformed
    nobody = nobody
    Events = {e1, e2}
    Workers = {w1}
    Responses <- Conclusive
    Log <- TwoLogs
    Malformed = malformed
    Nobody = nobody
    MaxFaults = 0
    MaxRestarts = 2
SPECIFICATION FairSpec
CHECK_DEADLOCK FALSE
INVARIANTS
    EveryCommittedHandled
    VerdictIsDurable
PROPERTIES
    NoCallOnceProcessed
    EveryRecordHandled
