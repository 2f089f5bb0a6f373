\* One caller, two revisions of one rule version.
CONSTANTS
    p1 = p1
    p2 = p2
    k1 = k1
    f1 = f1
    f2 = f2
    b1 = b1
    nohash = nohash
    Runners = {p1}
    Pollers = {p1}
    Keys = {k1}
    Fields = {f1}
    Sources = {nohash}
    NoHash = nohash
    RulesOf <- MCRulesOf
    VersionOf <- MCVersionOf
    Interval = 1
    LeaseTicks = 1
    AttemptTicks = 2
    CallerDeadlines = {2}
    RetryAfters = {}
    StartTimes = {0}
    MaxRuns = 1
    MaxAttempts = 2
    MaxEpoch = 2
    MaxRevision = 2
SPECIFICATION Spec
INVARIANTS RunnerHoldsItsRevision
