SPECIFICATION ActorSpec
CONSTANTS
  a = a
  b = b
  c = c
  root = root
  other = other
  prompt = prompt
  run = run
  q1 = q1
  None = None
  Task = Task
  Ids <- TwoIds
  Roots <- OneRoot
  Prompts <- OnePrompt
  RunIds <- NoRuns
  Queries <- OneQuery
  MaxCompleted = 1
  MaxBuffered = 1
  Configs <- LiveHosts
PROPERTIES NobodyWaits QueueEmpties
CHECK_DEADLOCK FALSE
