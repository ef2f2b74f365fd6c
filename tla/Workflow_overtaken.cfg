SPECIFICATION Spec
CONSTANTS
  v1 = v1
  None = None
  Scripts <- MCAgentScripts
  Values <- MCValues
  Budget = 2
  MaxBudget = 2
  MaxEpisodes = 3
  MaxFaults = 0
  MaxUnsaved = 0
INVARIANTS ResumableLoads
CHECK_DEADLOCK FALSE
