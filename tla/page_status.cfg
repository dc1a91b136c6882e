SPECIFICATION SafetySpec
CONSTANTS
  Emails = {e1}
  Handlers = {h1}
  RefreshTtl = 1
  AccessTtl = 1
  MaxUsers = 0
  MaxTokens = 0
  SessionsEnd = 0
  Users = {u1}
  Redeems = {h1}
  Catalog <- SoldBy
  Configured = {}
  Period = 1
  GRACE_PERIOD = 1
  MaxEvents = 0
  BillingEnd = 0
  Links = {"file"}
  LinkOf <- Parsed
  Requests = {h1}
  Workers = {w1}
  OriginFacts <- Shown
  MaxEvals = 1
  MaxChanges = 1
  Calls = {c1}
  Indicators = {"redis"}
  Timeout = 1
  ReadinessEnd = 0
CHECK_DEADLOCK FALSE
INVARIANT
  PageBarriersSeen
