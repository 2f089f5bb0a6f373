\* Three fetches, two permits, a delay between starts and Retry-After.
SPECIFICATION FairSpec
CONSTANTS
  Fetches = {f1, f2, f3}
  PerHostConcurrency = 2
  PerHostMinDelay = 1
  TimerLimit = 2
  RetryAfters = {0, 1, 3}
  NoTimer = NoTimer
INVARIANTS TypeOK PermitsAreCounted NobodyIsStranded
PROPERTIES StartsAreSpaced EveryWaiterIsServed
