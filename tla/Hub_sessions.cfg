SPECIFICATION SessionSpec
CONSTANTS
  t1 = t1
  ToolCalls <- MCOneToolCall
  Nothing = Nothing
  SessionMax = 1
  InboxBuffer = 1
  MaxTombstones = 1
  MaxLoops = 2
  MaxOps = 3
  MaxCancels = 1
INVARIANTS CancelReaches
PROPERTIES RebindKeeps
CHECK_DEADLOCK FALSE
