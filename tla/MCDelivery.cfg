\* One event and two destinations of one receiver, two workers, a budget of
\* three attempts and one replay.
CONSTANTS
    s1 = s1
    s2 = s2
    e1 = e1
    e2 = e2
    w1 = w1
    w2 = w2
    o1 = o1
    Destinations = {s1, s2}
    Events = {e1}
    Workers = {w1, w2}
    Origins = {o1}
    OriginOf <- MCOriginOf
    MaxAttempts = 3
    LeaseTicks = 2
    Backoff <- MCBackoff
    RetryAfters <- MCRetryAfters
    MaxReplays = 1
SPECIFICATION FairSpec
INVARIANTS TypeOK LeaseIsTheOpenAttempt DeliveredWasAccepted OutboxFollowsFanout
PROPERTIES RetryAfterHonoured KeepsPromise EveryDeliverySettles
CONSTRAINT Scope
