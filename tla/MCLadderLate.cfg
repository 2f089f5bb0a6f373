\* One run with a saved login whose wait the deadline cuts short.
SPECIFICATION Spec
CONSTANTS
  Vendors <- MCVendors
  Modes = {"standard", "research", "authed"}
  MaxSize = 2
  MaxRuns = 1
  None = None
INVARIANTS LoginPageIsNotContent
CHECK_DEADLOCK FALSE
