CONSTANTS
  Values = {mail, mail2, key, name}
  Categories = {"EMAIL", "API_KEY", "PERSON"}
  MaskValues = {mail, mail2}
  BlockValues = {key}
  NerValues = {name}
  Nothing = Nothing
  UnknownAction = "warn_allow"
  UnscannableAction = "block"
  StageTwoFailAction = "mask_known_only"
  UsedProviders = {"claude", "openai", "gemini", "none"}
  UsedPlaces <- OneOrTwo
  MaxRequests = 2
  MaxCrashes = 1
  PinLists <- MCPinLists
  Saved <- MCSaved
  Settings = {"builtin", "strict"}
  BuiltIn = "builtin"
  Gates = {g1}
  Debounce = TRUE
  MaxWrites = 2
SPECIFICATION ProxySpec
CHECK_DEADLOCK FALSE
INVARIANTS RawOnlyByPolicy RefusedStaysHere QuotesComeBack HeldTokensComeBack WireOneToOne Inverse
INVARIANTS PinsGuarded KnownMeansLoaded
PROPERTIES RequestsAnswered RefinesPseudonyms Converges
