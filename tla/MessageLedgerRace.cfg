SPECIFICATION Spec
CONSTANTS
  k1 = k1
  t1 = t1
  c1 = c1
  c2 = c2
  c3 = c3
  Keys = {k1}
  Calls = {c1, c2, c3}
  Tests = {}
  Retries = 2
  DelayOf <- Delays
  Window = 3
  MaxAge = 4
  MaxAttempts = 3
  NoKey = NoKey
SYMMETRY Symmetry
INVARIANTS OneSender CopiesAreDoubted
PROPERTIES SentIsFinal
