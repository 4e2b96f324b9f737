SPECIFICATION Spec
CONSTANTS
  e1 = e1
  e2 = e2
  p1 = p1
  p2 = p2
  Slots = {e1}
  None = None
  MaxRuns = 1
  Mails = {m1}
  MaxTexts = 1
  People = {p1}
  Stops = {"PAUSE"}
  MaxAttempts = 1
  MaxApprovals = 1
  MaxChanges = 1
CHECK_DEADLOCK FALSE
PROPERTIES PolicySeesStops
