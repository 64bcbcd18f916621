SPECIFICATION Spec
CONSTANTS
  a = a
  b = b
  s1 = s1
  s2 = s2
  Names = {a}
  Contents = {"x"}
  Ids = {1, 2}
  Jobs = {1}
  Workers = {"w1"}
  Slots = {s1, s2}
  Readers = {"p1"}
  Kinds = {"create", "update", "delete", "sync"}
  Faults = {"redis", "crash"}
  MaxRequests = 2
  MaxFaults = 1
  MaxAttempts = 1
  MaxStalled = 0
  MaxMade = 1
  NoWorker = NoWorker
INVARIANTS
  CachedIsCurrent
CHECK_DEADLOCK FALSE
