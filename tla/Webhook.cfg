SPECIFICATION FairSpec
CONSTANTS
  n1 = n1
  n2 = n2
  e1 = e1
  e2 = e2
  m1 = m1
  m2 = m2
  m3 = m3
  s1 = s1
  anna = anna
  Nodes = {n1, n2}
  Workers <- OneSlot
  Jobs = {e1, e2}
  Messages = {m1, m2, m3}
  StatusEvents = {s1}
  Payload <- Overlapping
  Sender <- OneCustomer
  SentAt <- Times
  HasMedia = {m2}
  UnknownNumber = {m3}
  Faults = {"crash", "stall", "db", "redis", "net"}
  MaxFaults = 2
  MaxAttempts = 2
  MaxStalled = 1
  MaxMade = 3
  NoWorker = NoWorker
  NoEvent = NoEvent
INVARIANTS
  CountedOnce
  ProcessedIsComplete
  SplitOnlyByRace
  LoggedIsQueued
PROPERTIES
  WindowSetBackOnlyByNew
  AckedEventsSettle
  ImplementsCustomerInbox
CHECK_DEADLOCK FALSE
