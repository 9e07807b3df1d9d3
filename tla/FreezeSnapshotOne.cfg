\* One daemon, all snapshot methods, two file systems (the second is the root).
CONSTANTS
  p1 = p1
  p2 = p2
  m1 = m1
  m2 = m2
  Freezers = {p1}
  Mounts = {m1, m2}
  Args <- OneDaemon
  Timeout = 1
  Disks = {d1, d2}
  Inputs <- AllInputs
  MaxLockRetry = 2
  MaxSeqDisks = 1
  RootMount = m2
  Inodes = {i1, i2}
  NoFile = NoFile
SPECIFICATION Spec
INVARIANTS
  TypeOK
  SuccessIsConsistent
  SuccessLeavesThawed
  GuestDiskLossIsReported
  SnapshotsAreGuarded
PROPERTIES BinSpec BackupSpec
CHECK_DEADLOCK FALSE
