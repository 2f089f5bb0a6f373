\* A monitor loop and another caller, under fairness, with cooldowns.
CONSTANTS
    p1 = p1
    p2 = p2
    k1 = k1
    f1 = f1
    f2 = f2
    b1 = b1
    nohash = nohash
    Runners = {p1, p2}
    Pollers = {p1}
    Keys = {k1}
    Fields = {f1}
    Sources = {nohash}
    NoHash = nohash
    RulesOf <- MCRulesOf
    VersionOf <- MCVersionOf
    Interval = 2
    LeaseTicks = 1
    AttemptTicks = 2
    CallerDeadlines = {1, 2}
    RetryAfters = {1}
    StartTimes = {0, 1}
    MaxRuns = 1
    MaxAttempts = 2
    MaxEpoch = 3
    MaxRevision = 1
SPECIFICATION FairSpec
INVARIANTS SchedulerSeesTheRun
PROPERTIES NoRunIsForgotten
