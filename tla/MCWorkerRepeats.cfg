CONSTANTS
    e1 = e1
    e2 = e2
    w1 = w1
    w2 = w2
    malformed = malformed
    nobody = nobody
    Events = {e1, e2}
    Workers = {w1}
    Responses <- AllResponses
    Log <- OneLog
    Malformed = malformed
    Nobody = nobody
    MaxFaults = 0
    MaxRestarts = 1
SPECIFICATION Spec
CHECK_DEADLOCK FALSE
PROPERTY
    PermanentIsTerminal
