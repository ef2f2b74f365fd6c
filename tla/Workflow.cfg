SPECIFICATION LiveSpec
CONSTANTS
  v1 = v1
  None = None
  Scripts <- MCScripts
  Values <- MCValues
  Budget = 1
  MaxBudget = 2
  MaxEpisodes = 2
  MaxFaults = 1
  MaxUnsaved = 1
INVARIANTS JournalLoads BudgetHeld NoOrphanThread
PROPERTIES ReplayIsFaithful RunEnds
CHECK_DEADLOCK FALSE
