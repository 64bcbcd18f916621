SPECIFICATION Spec
CONSTANTS
  a = a
  b = b
  s1 = s1
  s2 = s2
  Names = {a, b}
  Contents = {"x"}
  Ids = {1, 2}
  Jobs = {1, 2}
  Workers = {"w1"}
  Slots = {s1, s2}
  Readers = {}
  Kinds = {"create", "update", "delete", "sync"}
  Faults = {"db", "meta", "redis", "crash", "account", "again"}
  MaxRequests = 2
  MaxFaults = 1
  MaxAttempts = 3
  MaxStalled = 1
  MaxMade = 4
  NoWorker = NoWorker
INVARIANTS
  StatusFollowsMeta
  IdMeansSubmitted
SYMMETRY Symmetric
CHECK_DEADLOCK FALSE
