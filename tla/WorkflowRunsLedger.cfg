SPECIFICATION Spec
CONSTANTS
  g1 = g1
  u1 = u1
  p1 = p1
  p2 = p2
  Runs = {g1, u1}
  Gated = {g1}
  Workers = {p1, p2}
  Steps = 2
  MaxAttempts = 3
  Lease = 1
  ValidFor = 2
  MaxRuns = 1
  MaxCrashes = 3
  NoRun = NoRun
SYMMETRY Symmetry
INVARIANTS OneHolder LedgerIsTrue SettledAsItEnded RefusedDoesNothing
PROPERTIES ImplementsJob
