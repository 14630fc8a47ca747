SPECIFICATION RunFairSpec
CONSTANTS
  Sync = TRUE
  MaxSignals = 2
  MaxResets = 2
  MaxRequests = 2
INVARIANTS EndsAfterStop
PROPERTIES StopEnds SignalHeeded
CHECK_DEADLOCK FALSE
