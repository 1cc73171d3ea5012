CONSTANTS
  MaxLen = 3
  MaxBuffer = 6
  MaxText = 8
  FeatureSets <- WithTools
  LastBlock = 1
  MaxEvents = 3
  Chunks <- PiecesOrLong
  MaxInFlight = 1
SPECIFICATION PartSpec
CHECK_DEADLOCK FALSE
INVARIANT TokenFree
