\* A crawl, or a batch without a restart, of three steps in two milliseconds.
SPECIFICATION FairSpec
CONSTANTS
  Ids = {1, 2, 3}
  Failed = {2}
  Kinds = {"crawl", "batch"}
  MaxClock = 2
  MaxStarts = 2
  ReplayLimit = 1
  ListLimit = 1
  QueueLimit = 2
  WireLimit = 1
  FailureLimit = 2
INVARIANTS TypeOK DocumentsComplete
PROPERTIES WatchEnds
CONSTRAINT Scope
CHECK_DEADLOCK FALSE
