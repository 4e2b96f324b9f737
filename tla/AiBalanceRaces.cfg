SPECIFICATION Spec
CONSTANTS
  c1 = c1
  c2 = c2
  c3 = c3
  c4 = c4
  t1 = t1
  t2 = t2
  o1 = o1
  o2 = o2
  Customers = {c1, c2, c3, c4}
  Turns = {t1, t2}
  Operators = {o1, o2}
  Forms <- MCForms
  Included = 2
  Price = 2
  MaxErrors = 1
SYMMETRY Symmetry
CHECK_DEADLOCK FALSE
INVARIANTS DebtIsBounded OverchargeIsBounded RefundsAreOfCash
