SPECIFICATION Spec
CONSTANTS
  alice = alice
  bob = bob
  w1 = w1
  w2 = w2
  w3 = w3
  r1 = r1
  r2 = r2
  c1 = c1
  c2 = c2
  Requests = {r1, r2}
  Calls = {c1}
  Users = {alice, bob}
  Works = {w1, w2, w3}
  Keys <- SeveralKeys
  PathOf <- SeveralPaths
  Exempt <- ExemptKeys
  Deciders = {alice, bob}
  Approvers = {bob}
  ValidFor = 1
  ReservationTimeout = 2
  ActionMax = 1
  MaxTime = 2
  NoReq = NoReq
  NoUser = NoUser
  NoKey = NoKey
SYMMETRY Symmetry
INVARIANTS TypeOK SecondPerson TruthfulEvent
PROPERTIES ImplementsPermit
