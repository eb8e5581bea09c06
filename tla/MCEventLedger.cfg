CONSTANTS
    e1 = e1
    e2 = e2
    e3 = e3
    s1 = s1
    s2 = s2
    Events <- MCEvents
    Sessions = {s1, s2}
    Unstorable <- MCUnstorable
    Legacy <- MCLegacy
    MaxFaults = 2
SPECIFICATION FairSpec
INVARIANTS
    TypeOK
    LedgerMatchesOutbox
    ClaimedAtMostOnce
    AnswersAreCommitted
    ProcessingNeverVisible
PROPERTIES
    ImplementsAtomicClaim
    CallsReturn
