SPECIFICATION Spec
CONSTANTS
  k1 = k1
  b1 = b1
  b2 = b2
  Key = {k1}
  Batch = {b1, b2}
  Request = {1, 2, 3}
  Nothing = Nothing
  Absent = Absent
  Statuses = {"enabled", "paused", "disabled"}
  Inputs <- MCInputs
  CostOf <- MCCostOf
  Capacity <- MCCapacity
  MaxInflight = 2
  Minute = 2
  StateTTL = 4
  Digit = {0, 1, 2}
  MaxDigits = 2
  Exponents <- MCExponents
  ExpLimit = 21
  Steps = {1, 5}
  MaxWait = 1
  MaxRequests = 3
  MaxEvents = 2
CHECK_DEADLOCK FALSE
INVARIANTS TypeOK StoredOnce AdmissionExact CanonicalExact
PROPERTIES BoundariesHold ImplementsLedger EventuallyAnswered
