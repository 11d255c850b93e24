SPECIFICATION Spec
CONSTANTS
    e1 = e1
    e2 = e2
    e3 = e3
    d1 = d1
    d2 = d2
    r1 = r1
    r2 = r2
    Event = {e1}
    Destination = {d1, d2}
    Order <- TwoDestinations
    Relay = {r1}
    Unchecked = {}
    LostReplies = FALSE
    MaxDisruptions = 0
    Limit = 1
    MaxAttempts = 2
    CreatedAt <- MCCreatedAt
INVARIANT FailedMeansRetriedEverywhere
