CONSTANTS
    e1 = e1
    e2 = e2
    big = big
    p1 = p1
    p2 = p2
    Events <- AllEvents
    Publishers = {p1, p2}
    Oversize <- BigEvents
    MaxFaults = 1
SPECIFICATION FairSpec
INVARIANTS
    TypeOK
    PublishedIsInTopic
    TopicIsCommitted
    CopiesAreAccountedFor
PROPERTIES
    PublishedStaysPublished
    PendingIsPublished
