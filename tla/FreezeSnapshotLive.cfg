\* One daemon that freezes the root file system, on which its own writes block: it ends.
CONSTANTS
  p1 = p1
  p2 = p2
  m1 = m1
  m2 = m2
  Freezers = {p1}
  Mounts = {m1, m2}
  Args <- OneDaemon
  Timeout = 1
  Disks = {d1}
  Inputs <- AllInputs
  MaxLockRetry = 2
  MaxSeqDisks = 1
  RootMount = m2
  Inodes = {i1, i2}
  NoFile = NoFile
SPECIFICATION FairSpec
PROPERTY EveryDaemonEnds
CHECK_DEADLOCK FALSE
