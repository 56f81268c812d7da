CONSTANTS
  r1 = r1
  a1 = a1
  Requests = {r1, a1}
  Applies = {a1}
  Script <- RunAndReview
  QueueSize = 1
  None = None
  Stop = Stop
SPECIFICATION FairSpec
INVARIANTS OwnInterrupt StopReaches
PROPERTIES KeepsContract AllReturn
CHECK_DEADLOCK FALSE
