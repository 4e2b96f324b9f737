SPECIFICATION Spec
CONSTANTS
  e1 = e1
  e2 = e2
  p1 = p1
  p2 = p2
  Slots = {e1, e2}
  None = None
  MaxRuns = 2
  Mails = {m1}
  MaxTexts = 2
  People = {p1}
  Stops = {"PAUSE"}
  MaxAttempts = 2
  MaxApprovals = 2
  MaxChanges = 1
SYMMETRY Symmetry
CHECK_DEADLOCK FALSE
INVARIANTS OneSendPerApproval OnlyApprovedText OnlyLateOverlap
PROPERTIES OutcomeStands SilenceHolds
