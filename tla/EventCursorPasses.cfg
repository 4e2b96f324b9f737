SPECIFICATION FairSpec
CONSTANTS
  a = a
  b = b
  k1 = k1
  k2 = k2
  NoKind = NoKind
  NoRule = NoRule
  NoCause = NoCause
  Rules = {a, b}
  Kinds = {k1, k2}
  Workers = {w1,w2,m}
  Admins = {m}
  Trigger <- OwnKinds
  Emits <- LoopOnA
  Gated = {b}
  TimeLimit = TRUE
  BatchSize = 1
  Budget = 1
  MaxDepth = 1
  OldEvents = 1
  OldKinds = {k1}
  PeopleEvents = 2
  MaxEvents = 5
  MaxCrashes = 1
INVARIANTS PassedIsHandled LoopsEnd NoHistory
PROPERTIES CursorOnlyAdvances EventsAreConsumed
CHECK_DEADLOCK FALSE
