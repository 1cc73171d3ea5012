CONSTANTS
  Values = {v1, v2}
  Categories = {EMAIL, API_KEY}
  Threads = {p, q}
  UseLock = TRUE
  NoThread = NoThread
  MaxCalls = 4
SPECIFICATION EngineSpec
CHECK_DEADLOCK FALSE
INVARIANTS OwnTokenDecodes OwnAnswer NothingLeftOver WarmUntilIdle
PROPERTIES StepsAtomic EveryCallReturns
