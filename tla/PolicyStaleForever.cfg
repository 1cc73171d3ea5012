SPECIFICATION FairPolicySpec
CONSTANTS
  PinLists <- MCPinLists
  Saved <- MCSaved
  Settings = {"builtin", "strict"}
  BuiltIn = "builtin"
  Gates = {g1}
  Debounce = TRUE
  MaxWrites = 2
PROPERTY PicksUpNextWrite
CHECK_DEADLOCK FALSE
