SPECIFICATION AppSpec
CONSTANTS
  i1 = i1
  i2 = i2
  Ids = {i1, i2}
  Settings = {"small", "large"}
  Paths = {"shared", "own"}
  OutputPath <- AppOutput
  Limits = {0, 2}
  Entries = {e1}
  Titles = {"a", "b"}
  Passes = {p1, p2}
  Retention = 1
  MaxPending = 2
  LastDay = 2
CHECK_DEADLOCK FALSE
INVARIANTS
  ConverterTypeOK
  SlotsUsed
  CompletedIsWhole
  LibraryTypeOK
  IndexAgrees
  PassTellsTruth
PROPERTIES
  OneProcess
  CanceledStops
  StaleOnlyIfCrowded
  TrashKept
