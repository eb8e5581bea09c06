CONSTANTS
    e1 = e1
    e2 = e2
    w1 = w1
    w2 = w2
    malformed = malformed
    nobody = nobody
    Events = {e1, e2}
    Workers = {w1, w2}
    Responses <- AllResponses
    Log <- OneLog
    Malformed = malformed
    Nobody = nobody
    MaxFaults = 1
    MaxRestarts = 2
SPECIFICATION Spec
CHECK_DEADLOCK FALSE
SYMMETRY Symmetry
INVARIANTS
    TypeOK
    CommitFollowsOutcome
PROPERTY
    CommittedNeverRegresses
