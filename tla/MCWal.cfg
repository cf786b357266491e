SPECIFICATION Spec
CONSTANTS
  b1 = b1
  b2 = b2
  b3 = b3
  b4 = b4
  s1 = s1
  s2 = s2
  NoPos = NoPos
  Batch = {b1, b2, b4}
  Source = {s1, s2}
  Pos = {0, 1, 2, 3}
  Anchors = {0}
  KeyOf <- MCKeyOf
  PosOf <- MCPosOf
  Size <- MCSize
  MaxBytes = 4
  CompactBytes = 4
  MaxLog = 4
  TruncateMayFail = TRUE
INVARIANTS OpenNeverCorrupt TypeOK MemoryMirrorsLog CapacityAccounted
