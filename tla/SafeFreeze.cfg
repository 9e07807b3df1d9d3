\* Three binaries, two of them on the same file systems.
CONSTANTS
  p1 = p1
  p2 = p2
  p3 = p3
  m1 = m1
  m2 = m2
  m3 = m3
  Freezers = {p1, p2, p3}
  Mounts = {m1, m2, m3}
  Args <- OverlappingArgs
  Timeout = 1
SPECIFICATION BinFairSpec
INVARIANTS
  BinTypeOK
  NoOrphanFreeze
  WaitingHoldsFreeze
PROPERTY FreezeIsBounded
