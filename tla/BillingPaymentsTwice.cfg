SPECIFICATION Spec
CONSTANTS
  r1 = r1
  r2 = r2
  c1 = c1
  c2 = c2
  Rows = {r1, r2}
  TopUps = 1
  None = None
  Calls = {c1, c2}
  Terms = {1}
  Misspelt = {r1, r2}
  Transfers <- MCTransfers
  MaxInvoices = 2
INVARIANTS MoneyPaysOnce
CHECK_DEADLOCK FALSE
