\* A crawl of a site of six URLs on two hosts, one with a Crawl-delay, with two
\* workers and a page budget of three, over a restart and a resume.
SPECIFICATION Spec
CONSTANTS
  s = s  a = a  b = b  c = c  cc = cc  d = d  h1 = h1  h2 = h2
  None = None
  Urls = {s, a, b, c, cc, d}
  Hosts = {h1, h2}
  HostOf <- MCHostOf
  KeyOf <- MCKeyOf
  Links <- MCLinks
  MaxDepth = 2
  PerHostConcurrency = 2
  PerHostMinDelay = 0
  Kind = "crawl"
  Given <- MCSeed
  Extra <- MCNone
  Workers = {w1, w2}
  MaxPages = 3
  Body <- MCBody
  RobotsDelay <- MCRobotsDelay
  Outcomes = {"content", "failed", "cached", "threw"}
  HasTimeBudget = FALSE
  MaxTime = 2
  MaxStops = 1
  MaxResumes = 1
  MaxCancels = 0
  MaxFaults = 0
INVARIANTS TypeOK PagesWithinBudget NoPageTwice CrawlLeavesNoLink
PROPERTIES CrawlDelayHeld
CHECK_DEADLOCK FALSE
SYMMETRY MCWorkers
