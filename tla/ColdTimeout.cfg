CONSTANT MaxCalls = 3
SPECIFICATION RunnerSpec
CHECK_DEADLOCK FALSE
INVARIANT NoColdTimeout
