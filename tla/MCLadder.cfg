\* Two runs in every mode, with two vendors and pages of three sizes.
SPECIFICATION FairSpec
CONSTANTS
  Vendors <- MCVendors
  Modes = {"standard", "research", "authed"}
  MaxSize = 2
  MaxRuns = 2
  None = None
INVARIANTS TypeOK BestPageIsKept RungsAsPermitted
PROPERTIES RunEnds
CHECK_DEADLOCK FALSE
