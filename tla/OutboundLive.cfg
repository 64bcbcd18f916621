SPECIFICATION FairSpec
CONSTANTS
  m1 = m1
  m2 = m2
  n1 = n1
  n2 = n2
  s1 = s1
  s2 = s2
  Messages = {m1, m2}
  Nodes = {n1}
  Slots = {s1}
  NoAccount = {m2}
  CallbackStatuses = {}
  Faults = {"crash", "db", "stall"}
  BatchSize = 2
  MaxAttempts = 2
  MaxStalled = 1
  MaxMade = 2
  MaxFaults = 2
  NoWorker = NoWorker
  NoMessage = NoMessage
INVARIANTS
  NoLostIntent
  SentRecorded
PROPERTIES
  EveryIntentSettles
CHECK_DEADLOCK FALSE
