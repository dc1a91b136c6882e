SPECIFICATION SafetySpec
CONSTANTS
  Emails = {e1}
  Handlers = {h1, h2}
  RefreshTtl = 1
  AccessTtl = 1
  MaxUsers = 2
  MaxTokens = 3
  SessionsEnd = 1
  Users = {u1, u2}
  Redeems = {h1, h2}
  Catalog <- SoldBy
  Configured = {"apple", "google", "stripe"}
  Period = 1
  GRACE_PERIOD = 2
  MaxEvents = 1
  BillingEnd = 3
  Links = {"file"}
  LinkOf <- Parsed
  Requests = {h1, h2}
  Workers = {w1, w2}
  OriginFacts <- Shown
  MaxEvals = 2
  MaxChanges = 1
  Calls = {c1}
  Indicators = {"redis"}
  Timeout = 1
  ReadinessEnd = 0
SYMMETRY Interchangeable
CHECK_DEADLOCK FALSE
INVARIANTS
  SessionsTypeOK
  OneLive
  ClosedStaysClosed
  BillingTypeOK
  HeldOnce
  AnalysisTypeOK
  OneProbe
  NeverGoesBack
  GoldenRule
PROPERTIES
  NoFalseAlarm
  StableLogin
  GrantBacked
  PlanOnlyLapses
