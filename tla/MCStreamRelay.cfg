CONSTANTS
  MaxLen = 3
  MaxBuffer = 6
  MaxText = 8
  FeatureSets <- PlainOrAny
  LastBlock = 1
  MaxEvents = 3
  Chunks <- PiecesOrLong
  MaxInFlight = 1
SPECIFICATION PartSpec
CHECK_DEADLOCK FALSE
INVARIANTS NoTokenDelivered ClientTextRestored EventsKeepTheirPlace HeldBack OnlyForceSplits
PROPERTIES StreamEnds
