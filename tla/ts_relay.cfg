SPECIFICATION FairSpec
CONSTANTS
    e1 = e1
    e2 = e2
    e3 = e3
    d1 = d1
    d2 = d2
    r1 = r1
    r2 = r2
    Event = {e1, e3}
    Destination = {d1, d2}
    Relay = {r1}
    Unchecked = {}
    LostReplies = FALSE
    MaxDisruptions = 2
    Limit = 2
    MaxAttempts = 2
    CreatedAt <- MCCreatedAt
INVARIANTS
    TypeOK
    PublishedMeansDelivered
    FailedMeansRetriedEverywhere
    SendsWithinBudget
PROPERTIES
    ImplementsContract
    EventuallySettled
