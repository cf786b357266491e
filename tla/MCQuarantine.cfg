SPECIFICATION FairSpec
CONSTANTS
  Row = {q1, q2}
  Undecodable = {q2}
  Caller = {c1, c2}
  MaxAttempts = 3
CHECK_DEADLOCK FALSE
INVARIANTS TypeOK ResolvedStored AuditMatches
PROPERTY ClaimsRecovered
