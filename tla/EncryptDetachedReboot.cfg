\* One reboot, no failing command.
CONSTANTS
  Modes <- DetachedOnly
  Slice = 2
  HeaderUnits = 1
  FullSlices = 2
  LastUnits = 1
  NoFile = NoFile
  MaxErrors = 0
  MaxReboots = 1
SPECIFICATION Spec
INVARIANT DoneMeansEncrypted
CHECK_DEADLOCK FALSE
