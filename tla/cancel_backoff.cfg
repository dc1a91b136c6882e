SPECIFICATION SpecCancel
CONSTANTS
  Tasks = {t1}
  MaxConcurrent = 1
  MaxRetries = 1
  MaxCalls = 1
CHECK_DEADLOCK FALSE
PROPERTY
  CancelEndsBackoff
