SPECIFICATION FairSpec
CONSTANTS
  Source = {s1, s2}
  MaxLine = 2
  MaxMint = 1
  BadLines = {}
  BatchSize = 1
  MaxBytes = 1
  MaxFaults = 0
  Pos = {0, 1, 2, 3}
  NoPos = NoPos
  NoBatch = NoBatch
  Dispatcher = Dispatcher
  Batch <- MCBatch
  KeyOf <- MCKeyOf
  PosOf <- MCPosOf
  LoOf <- MCLoOf
  Size <- MCSize
  Lines <- MCLines
  Invalid <- MCInvalid
CHECK_DEADLOCK FALSE
PROPERTY SleepersWoken
