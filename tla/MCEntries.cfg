SPECIFICATION Spec
CONSTANTS
  p1 = p1
  p2 = p2
  a = a
  b = b
  Project = {p1, p2}
  Reader = {r1, r2}
  Walker = {r1}
  r1 = r1
  r2 = r2
  Service = {a, b}
  Entry = {1, 2, 3, 4}
  ProjectOf <- MCProjectOf
  ObservedOf <- MCObservedOf
  ServiceOf <- MCServiceOf
  Filter <- MCFilter
  Policy <- MCPolicy
  DefaultPolicy <- MCDefaultPolicy
  Created <- MCCreated
  Stored = {1, 2, 4}
  Limit = 1
  Capacity = 1
  NoLimit = NoLimit
  NoSemaphore = NoSemaphore
  BatchSize = 1
  MaxBatches = 2
  MaxProjects = 2
  MaxClock = 3
  MaxEvents = 3
CHECK_DEADLOCK FALSE
INVARIANTS TypeOK WalkExact ConcurrencyBounded
PROPERTIES DeletionJustified Converges
