CONSTANTS
  MaxConns = 1
  MaxCalls = 2
  MaxEngines = 2
  None = None
SPECIFICATION FairSpec
INVARIANTS SessionShown CallsOfThisEngine
PROPERTIES Drained
CHECK_DEADLOCK FALSE
