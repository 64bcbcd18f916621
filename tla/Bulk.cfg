SPECIFICATION FairSpec
CONSTANTS
  c1 = c1
  Campaigns = {c1}
  Name <- SameName
  Recipients = 2
  DbChunk = 1
  QueueChunk = 1
  MaxWaiting = 0
  Callbacks = {"sent", "failed"}
  Faults = {"crash", "stall", "db", "redis", "debit", "limit", "meta", "timeout", "nowamid"}
  MaxFaults = 1
  MaxAttempts = 2
  MaxStalled = 1
  MaxMade = 2
  Workers = {"w1", "w2"}
  Jobs <- CampaignJobs
  NoWorker = NoWorker
  NoMessage = NoMessage
INVARIANTS
  SendsArePaid
  CompletedMeansDone
  SentOnce
PROPERTIES
  ClosedStaysClosed
  CampaignCompletes
  ImplementsLedger
CHECK_DEADLOCK FALSE
