\* Two daemons freeze the same file system.
CONSTANTS
  p1 = p1
  p2 = p2
  m1 = m1
  m2 = m2
  Freezers = {p1, p2}
  Mounts = {m1, m2}
  Args <- SameMount
  Timeout = 1
  Disks = {d1}
  Inputs <- GuestOnly
  MaxLockRetry = 1
  MaxSeqDisks = 1
  RootMount = NoMount
  Inodes = {i1, i2, i3}
  NoFile = NoFile
SPECIFICATION Spec
INVARIANT SuccessIsConsistent
CONSTRAINT FewFailures
SYMMETRY DaemonSymmetry
CHECK_DEADLOCK FALSE
PROPERTY BackupSpec
