SPECIFICATION FairSpec
CONSTANTS
  g1 = g1
  u1 = u1
  p1 = p1
  p2 = p2
  Runs = {g1}
  Gated = {g1}
  Workers = {p1, p2}
  Steps = 1
  MaxAttempts = 2
  Lease = 1
  ValidFor = 1
  MaxRuns = 1
  MaxCrashes = 2
  NoRun = NoRun
PROPERTIES PendingResolves DoneIsSettled
