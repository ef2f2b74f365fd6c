SPECIFICATION LiveSpec
CONSTANTS
  c1 = c1
  c2 = c2
  Callers <- TwoCallers
  Enabled = TRUE
  OpenDuration = 1
  WindowDuration = 0
  MinSamples = 1
  RateNum = 1
  RateDen = 2
  HalfOpenMaxProbes = 0
  MaxWindowEntries = 1
  UsizeModulus = 4
  MaxTime = 2
INVARIANTS WindowSound
PROPERTIES LeaseTakenOnce NeverStranded
