SPECIFICATION Spec
CONSTANTS
  Tasks = {t1, t2}
  MaxConcurrent = 2
  MaxRetries = 0
  MaxCalls = 1
CHECK_DEADLOCK FALSE
INVARIANT
  ResumedIsStarted
