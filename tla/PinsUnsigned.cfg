SPECIFICATION FairPolicySpec
CONSTANTS
  PinLists <- MCPinLists
  Saved <- MCSaved
  Settings = {"builtin", "strict"}
  BuiltIn = "builtin"
  Gates = {g1}
  Debounce = TRUE
  MaxWrites = 2
PROPERTY PinChangeIsSigned
CHECK_DEADLOCK FALSE
