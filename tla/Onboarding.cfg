SPECIFICATION FairSpec
CONSTANTS
  p1 = p1
  p2 = p2
  Procs = {p1, p2}
  Slots <- OneSlot
  Kinds = {"signup", "addPhone", "requestOtp", "verifyOtp", "register", "webhook", "cron"}
  MaxRequests = 2
  Faults = {"redis", "meta", "db", "crash", "ttl"}
  MaxFaults = 2
  NoSlot = NoSlot
INVARIANTS
  ClaimsAreDone
  OneRefresher
PROPERTIES
  AccountFollowsMap
  RequestsEnd
CHECK_DEADLOCK FALSE
