SPECIFICATION LiveSpec
CONSTANTS
  Tasks = {t1, t2}
  MaxConcurrent = 1
  MaxRetries = 1
  MaxCalls = 1
CHECK_DEADLOCK FALSE
PROPERTIES
  Served
