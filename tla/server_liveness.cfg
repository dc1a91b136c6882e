SPECIFICATION LivenessSpec
CONSTANTS
  Emails = {e1}
  Handlers = {h1}
  RefreshTtl = 1
  AccessTtl = 1
  MaxUsers = 0
  MaxTokens = 0
  SessionsEnd = 0
  Users = {u1}
  Redeems = {q1}
  Catalog <- SoldBy
  Configured = {}
  Period = 1
  GRACE_PERIOD = 1
  MaxEvents = 0
  BillingEnd = 0
  Links = {"file", "local"}
  LinkOf <- Parsed
  Requests = {r1, r2}
  Workers = {w1}
  OriginFacts <- ShownOrNot
  MaxEvals = 1
  MaxChanges = 0
  Calls = {c1}
  Indicators = {"redis", "database"}
  Timeout = 2
  ReadinessEnd = 4
CHECK_DEADLOCK FALSE
INVARIANTS
  ReadinessTypeOK
  ReportInTime
  OkMeansAll
PROPERTIES
  JobsStart
  Answered
  Reported
