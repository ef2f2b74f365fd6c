SPECIFICATION LiveSpec
CONSTANTS
  s = s
  p = p
  q = q
  i1 = i1
  i2 = i2
  None = None
  Tasks <- OneTask
  Prompts <- TwoPrompts
  Ids <- TwoIds
  FreshEvery = 2
INVARIANTS LoopGuarded ChainOfOneJob OverlapOnlyAfterFailure
PROPERTIES LoopGoesOn
CHECK_DEADLOCK FALSE
