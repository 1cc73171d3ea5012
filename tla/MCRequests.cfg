CONSTANTS
  p1 = p1
  p2 = p2
  p3 = p3
  Positions <- ThreePositions
  Anywhere = Anywhere
  Depth = 9
  Requests <- SomeRequests
  Length = 4
  Categories <- RRNBeforeAddress
  MaxHits = 3
  MaxExtra = 2
  CategorySpec <- TwoSpecs
  Unlisted = {"NEW"}
  Channels = {"api"}
  Originals = {"kim", "Kim", "lee"}
  Normal <- SpelledTwice
  HmacKey = TRUE
  PolicyFiles <- SomeFiles
  DetectionLists <- SomeDetections
  FirstTexts <- UpToTwo
  LaterTexts <- UpToOne
  MaxTexts = 2
  NameLength <- Names
SPECIFICATION RequestsSpec
CHECK_DEADLOCK FALSE
INVARIANTS RoundTrip HitStartsMasked RawTailsFollowNer ScrubberFollowsMap StrictLetsThroughOnly
INVARIANTS RestoresWhatItHides RawExplained LegalDecisions
PROPERTIES ProximityOnlyAdds UnapprovedPinsDecideAlike
