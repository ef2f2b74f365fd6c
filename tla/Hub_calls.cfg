SPECIFICATION Spec
CONSTANTS
  c1 = c1
  c2 = c2
  Calls <- MCCalls
  Timed <- MCTimed
  Beat = Beat
  None = None
  OutboundBuffer = 1
  CtlCapacity = 2
  MaxSockets = 2
INVARIANTS CallsKept WriterFollows
CHECK_DEADLOCK FALSE
