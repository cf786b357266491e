SPECIFICATION Spec
CONSTANTS
  Row = {q1}
  Undecodable = {}
  Caller = {c1}
  MaxAttempts = 2
CHECK_DEADLOCK FALSE

PROPERTY TerminalStable
