SPECIFICATION Spec
CONSTANTS
  Operator = {o1, o2}
  Hostname = {h1, h2}
  Asked = {"enabled", "error", "disabled"}
  NoAgent = NoAgent
  NoPipeline = NoPipeline
  NoControl = NoControl
  NoCall = NoCall
  MaxVersion = 2
  MaxCalls = 2
  MaxStarts = 1
  MaxFailures = 1
  MaxLate = 1
CHECK_DEADLOCK FALSE
PROPERTIES StoppedRecordHeld Steered Informed
INVARIANTS TypeOK ConfigReplacedOnce OneHost
