CONSTANTS
  p1 = p1
  p2 = p2
  p3 = p3
  Proc = {p1, p2, p3}
  NoProc = NoProc
  TTL = 2
  Expiry = 4
  MaxTime = 4
  MaxVersion = 2
  Faults = {"redis", "crash"}
SPECIFICATION Spec
SYMMETRY Symmetry
INVARIANTS
  TypeOK
  TombstoneHolds
  ExposureIsBounded
