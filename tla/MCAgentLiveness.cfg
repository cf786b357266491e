SPECIFICATION FairSpec
CONSTANTS
  Source = {s1}
  MaxLine = 2
  MaxMint = 2
  BadLines = {2}
  BatchSize = 2
  MaxBytes = 9
  MaxFaults = 3
  Pos = {0, 1, 2, 3}
  NoPos = NoPos
  NoBatch = NoBatch
  Dispatcher = Dispatcher
  Batch <- MCBatch
  KeyOf <- MCKeyOf
  PosOf <- MCPosOf
  LoOf <- MCLoOf
  Size <- MCSize
  Lines <- MCLines
  Invalid <- MCInvalid
CHECK_DEADLOCK FALSE
PROPERTY EventuallySettled
