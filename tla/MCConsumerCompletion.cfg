CONSTANTS
    e1 = e1
    e2 = e2
    w1 = w1
    w2 = w2
    Events = {e1}
    Workers = {w1, w2}
    Responses = {0, 199, 200, 299, 300, 404, 428, 429, 430, 499, 500, 599, 600}
    MaxAttempts = 3
    MaxFaults = 2
SPECIFICATION Spec
CHECK_DEADLOCK FALSE
SYMMETRY Symmetry
INVARIANTS
    TypeOK
    ProcessedWasDelivered
    CallsAreClaimed
    VerdictIsBacked
PROPERTY
    ProcessedIsFinal
