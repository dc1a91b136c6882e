SPECIFICATION Spec
CONSTANTS
  Tasks = {t1}
  MaxConcurrent = 1
  MaxRetries = 0
  MaxCalls = 1
CHECK_DEADLOCK FALSE
PROPERTY
  CanceledIsTerminal
