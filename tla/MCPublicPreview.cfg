\* Two requests for the gated origin, one of them the owner's, and one for an
\* ordinary page, for the last preview of the day.
SPECIFICATION FairSpec
CONSTANTS
  amazon = amazon  owner = owner  page = page  v1 = v1  v2 = v2  None = None
  Requests = {amazon, owner, page}
  Visitors = {v1, v2}
  VisitorOf <- MCVisitorOf
  Gated = {amazon, owner}
  Evaluations = {owner}
  VisitorLimit = 1
  SiteLimit = 1
  DeadlineTicks = 2
  LeaseTicks = 3
  Spacing = 1
  RetryAfters = {3}
  QuotaAttempts = 2
INVARIANTS TypeOK EveryCaptureIsPaid OneCaptureAtTheOrigin
PROPERTIES CooldownOutlivesTheLease EveryRequestEnds
