SPECIFICATION FairSpec
CONSTANTS
  w1 = w1
  t1 = t1
  c1 = c1
  c2 = c2
  Tasks = {t1}
  Workers = {w1}
  Nobody = Nobody
  Calls = {c1, c2}
  MaxAttempts = 2
  MaxConcurrency = 2
  Lease = 1
  Outcomes = {"SUCCEEDED", "FAILED"}
  Metered = {w1}
  PersonTo = {"BLOCKED", "CANCELLED"}
  MaxTime = 1
  MaxDecisions = 1
  MaxCrashes = 1
  MaxGen = 3
INVARIANTS NoEndlessRetry
PROPERTIES ImplementsFence AcceptedIsRecorded LaterCallsObeyPeople ExpiredIsReleased
