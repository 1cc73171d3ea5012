CONSTANTS
  Length = 4
  Categories <- RRNBeforeAddress
  MaxHits = 1
  MaxExtra = 1
SPECIFICATION RedactionSpec
CHECK_DEADLOCK FALSE
INVARIANT StageOneHasPriority
