SPECIFICATION Spec
CONSTANTS
  Versions <- TwoVersions
  Size <- Lengths
  MaxRetries = 0
  MaxReadings = 2
  MaxFormer = 0
INVARIANTS
  TypeOK
  PartIsBeginning
  CountsAgree
PROPERTIES
  RenamesWhole
  DeliveryKept
