SPECIFICATION Spec
CONSTANTS
  a = a
  b = b
  c = c
  root = root
  other = other
  prompt = prompt
  run = run
  q1 = q1
  None = None
  Task = Task
  Ids <- ThreeIds
  Roots <- TwoRoots
  Prompts <- OnePrompt
  RunIds <- OneRun
  Queries <- NoQuery
  MaxCompleted = 1
  MaxBuffered = 1
  Configs <- AdmissionHosts
SYMMETRY IdSymmetry
INVARIANTS SlotsUsed StopHolds
PROPERTIES NoOvertaking
