CONSTANTS
    r1 = r1
    r2 = r2
    Requests = {r1, r2}
    MaxFaults = 2
SPECIFICATION FairSpec
CHECK_DEADLOCK FALSE
INVARIANTS
    TypeOK
    RunsConfigured
    AccessLogMatchesWire
    LostOnlyByForce
PROPERTY
    ServesInTheEnd
