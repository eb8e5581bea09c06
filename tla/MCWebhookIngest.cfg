CONSTANTS
    issued = issued
    forged = forged
    legacy = legacy
    unstorable = unstorable
    s1 = s1
    s2 = s2
    Events <- AllIds
    Sessions = {s1, s2}
    Unstorable <- UnstorableIds
    Legacy <- LegacyIds
    Issued <- IssuedIds
    MaxFaults = 2
SPECIFICATION FairSpec
INVARIANTS
    TypeOK
    AckedIsDurable
PROPERTIES
    OnlySignedRecorded
    EveryEventAcked
