SPECIFICATION FairSpec
CONSTANTS
  alice = alice
  bob = bob
  w1 = w1
  w2 = w2
  w3 = w3
  r1 = r1
  c1 = c1
  c2 = c2
  Requests = {r1}
  Calls = {c1, c2}
  Users = {alice, bob}
  Works = {w1}
  Keys <- OneKey
  PathOf <- OnePath
  Exempt = {}
  Deciders = {bob}
  Approvers = {bob}
  ValidFor = 3
  ReservationTimeout = 2
  ActionMax = 1
  MaxTime = 4
  NoReq = NoReq
  NoUser = NoUser
  NoKey = NoKey
INVARIANTS ExclusiveRun WriteOnce RedoIsFlagged
PROPERTIES SettledIsFinal ReservationResolves
