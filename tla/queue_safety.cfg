SPECIFICATION Spec
CONSTANTS
  Tasks = {t1, t2}
  MaxConcurrent = 1
  MaxRetries = 1
  MaxCalls = 1
SYMMETRY Symmetric
CHECK_DEADLOCK FALSE
INVARIANTS
  TypeOK
  SlotBound
  NoLostWakeup
PROPERTIES
  OnlyFaultsOrphan
  PausedUntilResumed
