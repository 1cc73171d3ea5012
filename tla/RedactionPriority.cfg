CONSTANTS
  Length = 4
  Categories <- RRNBeforeAddress
  MaxHits = 2
  MaxExtra = 2
SPECIFICATION RedactionSpec
CHECK_DEADLOCK FALSE
INVARIANT HigherPriorityWins
