SPECIFICATION Spec
CONSTANTS
  Identity = {i1, i2}
  NoFile = NoFile
  NoRecord = NoRecord
  BatchSize = 2
  LateWriter = TRUE
  MaxLines = 4
  MaxRotations = 2
  MaxTruncations = 1
  MaxDeletions = 1
  MaxFaults = 2
CHECK_DEADLOCK FALSE
SYMMETRY IdentitySymmetry
INVARIANT DeliveredOnce
