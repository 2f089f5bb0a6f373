\* Two callers, runs under two revisions, crashes, pauses and takeovers, and two
\* readings of two pages.
CONSTANTS
    p1 = p1
    p2 = p2
    k1 = k1
    f1 = f1
    f2 = f2
    b1 = b1
    nohash = nohash
    Runners = {p1, p2}
    Pollers = {p1}
    Keys = {k1}
    Fields = {f1, f2}
    Sources = {b1, nohash}
    NoHash = nohash
    RulesOf <- MCRulesOf
    VersionOf <- MCVersionOf
    Interval = 1
    LeaseTicks = 1
    AttemptTicks = 2
    CallerDeadlines = {2}
    RetryAfters = {}
    StartTimes = {0}
    MaxRuns = 3
    MaxAttempts = 2
    MaxEpoch = 3
    MaxRevision = 2
SPECIFICATION Spec
INVARIANTS TypeOK ActiveRunIsCurrent OneAttemptAtWork SnapshotsAreOfCompletedRuns EventsTellTheChanges
CONSTRAINT Scope
