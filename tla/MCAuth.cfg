SPECIFICATION Spec
CONSTANTS
  IPs = {ip1, ip2}
  MaxGlobalFails = 2
  LockFor = 2
  MaxIPFails = 2
  Window = 2
  NoBucket = NoBucket
  Handlers = {h1, h2}
  Ids = {s1}
  TTL = 2
  Horizon = 5
  NoSession = NoSession
SYMMETRY MCSymmetry
INVARIANTS TypeOK OnlyIssued LockedOut
PROPERTIES DeadStaysDead LocksHold
