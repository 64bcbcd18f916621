SPECIFICATION Spec
CONSTANTS
  m1 = m1
  m2 = m2
  i1 = i1
  x1 = x1
  x2 = x2
  x3 = x3
  Jobs = {m1, m2}
  Workers = {"w1"}
  Requests = {"h1", "h2"}
  Inbound = {i1}
  Payload <- Mixed
  SyncRetries = 1
  MaxDeliveries = 3
  Faults = {}
  MaxFaults = 0
  MaxAttempts = 2
  MaxStalled = 1
  MaxMade = 2
  NoWorker = NoWorker
  NoWebhook = NoWebhook
  NoMessage = NoMessage
INVARIANTS
  InboundKept
CHECK_DEADLOCK FALSE
