SPECIFICATION FairSpec
CONSTANTS
  m1 = m1
  m2 = m2
  w1 = w1
  w2 = w2
  Messages = {m1, m2}
  Loops = {w1, w2}
  BatchSize = 1
  MaxRetry = 1
  Rejected = {m2}
  Callbacks = {m1}
  Faults = {"crash", "db", "meta", "timeout", "stall"}
  MaxFaults = 1
INVARIANTS
  RepeatHasReason
  DeadMeansUnsent
  CompletedMeansSettled
PROPERTIES
  QueuedSettles
CHECK_DEADLOCK FALSE
