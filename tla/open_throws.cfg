SPECIFICATION Spec
CONSTANTS
  Versions <- TwoVersions
  Size <- Lengths
  MaxRetries = 0
  MaxReadings = 2
  MaxFormer = 0
PROPERTY
  NeverThrows
