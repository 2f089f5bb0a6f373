\* A batch of two URLs that is appended one more, with two workers, while it
\* is cancelled, shut down, lost and started again.
SPECIFICATION FairSpec
CONSTANTS
  s = s  a = a  b = b  c = c  cc = cc  d = d  h1 = h1  h2 = h2
  None = None
  Urls = {a, b, c}
  Hosts = {h1}
  HostOf <- MCOneHost
  KeyOf <- MCExact
  Links <- MCNoLinks
  MaxDepth = 0
  PerHostConcurrency = 2
  PerHostMinDelay = 0
  Kind = "batch"
  Given <- MCTwoUrls
  Extra <- MCOneMore
  Workers = {w1, w2}
  MaxPages = None
  Body <- MCBody
  RobotsDelay <- MCNoDelay
  Outcomes = {"threw"}
  HasTimeBudget = TRUE
  MaxTime = 0
  MaxStops = 1
  MaxResumes = 0
  MaxCancels = 1
  MaxFaults = 1
INVARIANTS WebhookIsTold
PROPERTIES RunLeavesNoUrl CancelIsFinal JobEnds
CHECK_DEADLOCK FALSE
