SPECIFICATION FairSpec
CONSTANTS
  Identity = {i1, i2, i3}
  NoFile = NoFile
  NoRecord = NoRecord
  BatchSize = 2
  LateWriter = FALSE
  MaxLines = 4
  MaxRotations = 2
  MaxTruncations = 0
  MaxDeletions = 0
  MaxFaults = 2
CHECK_DEADLOCK FALSE
INVARIANTS TypeOK RecordsWhole CheckpointExact
PROPERTIES RotationDrains EventuallyDelivered
