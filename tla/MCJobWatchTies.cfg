\* A batch whose second page sorts before its first, in one millisecond.
SPECIFICATION Spec
CONSTANTS
  Ids = {1, 2, 3}
  Failed = {2}
  Kinds = {"batch"}
  MaxClock = 2
  MaxStarts = 2
  ReplayLimit = 1
  ListLimit = 1
  QueueLimit = 2
  WireLimit = 1
  FailureLimit = 2
INVARIANT EveryDocument
CONSTRAINT Watching
CHECK_DEADLOCK FALSE
