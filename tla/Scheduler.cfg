SPECIFICATION LiveSpec
CONSTANTS
  a = a
  b = b
  c = c
  None = None
  Tasks <- MCTasks
  Durable <- MCDurable
  OneShot <- MCOneShot
  Populations <- MCPopulations
  MaxTasks = 2
  MaxRevision = 2
  MaxGenerations = 2
  MaxSaves = 1
  MaxEvents = 2
INVARIANTS RemovalIsFinal LogAgrees NoStaleReservation EventsInOrder
PROPERTIES ActorReturns
CHECK_DEADLOCK FALSE
