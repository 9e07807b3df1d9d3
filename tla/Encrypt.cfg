\* Both kinds of header; two slices of two units and a last slice of one.
CONSTANTS
  Modes <- BothModes
  Slice = 2
  HeaderUnits = 1
  FullSlices = 2
  LastUnits = 1
  NoFile = NoFile
  MaxErrors = 3
  MaxReboots = 2
SPECIFICATION LiveSpec
INVARIANTS
  TypeOK
  OneErrorIsRepaired
  DamageIsBounded
  AheadIsUntouched
PROPERTIES
  CommittedIsSettled
  RunEnds
  VolumeSpec
CHECK_DEADLOCK FALSE
