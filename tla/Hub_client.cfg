SPECIFICATION ClientSpec
CONSTANTS
  c1 = c1
  b1 = b1
  b2 = b2
  b3 = b3
  s1 = s1
  s2 = s2
  t1 = t1
  Calls <- MCCalls
  Timed <- MCTimed
  Beat = Beat
  None = None
  OutboundBuffer = 1
  CtlCapacity = 2
  MaxSockets = 2
  Borrowers <- MCBorrowers
  Kind <- MCKind
  MaxConnections = 3
  Sessions <- MCSessions
  MaxEpoch = 4
  ToolCalls <- MCToolCalls
  Nothing = Nothing
  SessionMax = 1
  InboxBuffer = 1
  MaxTombstones = 1
  MaxLoops = 2
  MaxOps = 2
  MaxCancels = 1
INVARIANTS OneConnection MarkerSettles
PROPERTIES ConnectionSettles UnusedIsClosed ReadyAgain SessionWindsDown
CHECK_DEADLOCK FALSE
