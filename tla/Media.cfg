SPECIFICATION FairSpec
CONSTANTS
  j1 = j1
  Jobs = {j1}
  Workers = {"w1", "w2"}
  Faults = {"crash", "stall", "db", "meta", "disk"}
  MaxFaults = 3
  MaxAttempts = 3
  MaxStalled = 1
  MaxMade = 4
  NoWorker = NoWorker
  NoJob = NoJob
INVARIANTS
  AvailableIsSaved
  EndIsVisible
PROPERTIES
  MediaSettles
CHECK_DEADLOCK FALSE
