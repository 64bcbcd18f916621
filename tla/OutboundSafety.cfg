SPECIFICATION Spec
CONSTANTS
  Messages = {m1}
  Nodes = {n1, n2}
  Slots = {s1}
  NoAccount = {}
  CallbackStatuses = {"DELIVERED"}
  Faults = {"crash", "db", "redis", "timeout"}
  BatchSize = 2
  MaxAttempts = 2
  MaxStalled = 1
  MaxMade = 3
  MaxFaults = 2
  NoWorker = NoWorker
  NoMessage = NoMessage
SYMMETRY Symmetry
INVARIANTS
  DuplicateOnlyAfterLostRecord
  OnlyDueRunsPassTheCheck
PROPERTIES
  WamidKept
  ImplementsRecordedDispatch
CHECK_DEADLOCK FALSE
