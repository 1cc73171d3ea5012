CONSTANTS
  BackupCount = 2
  MaxLen = 1
  MaxEntries = 2
  Scopes = {s1, s2}
  Commands = {command}
  Unchecked = {s2}
  MaxAstray = 1
  Blocks = {b1, b2, b3}
  Overriding = {b3}
  Versions = {"v1", "v2"}
  Contents = {"rule", "edited"}
  MaxKeys = 2
  MaxSigned = 2
SPECIFICATION ToolsSpec
CHECK_DEADLOCK FALSE
INVARIANTS PurgeLeavesNothing Orderly RulesClaimed EnvRestored LoadedWasSigned
PROPERTIES Chronicle ReportsTrue
