SPECIFICATION SerialSpec
CONSTANTS
  Unset = Unset
  Out = Out
  Plain = Plain
  Weighed = Weighed
  c1 = c1
  c2 = c2
  c3 = c3
  Callers <- ThreeCallers
  Enabled = TRUE
  OpenDuration = 2
  WindowDuration = 2
  MinSamples = 2
  RateNum = 1
  RateDen = 2
  HalfOpenMaxProbes = 1
  MaxWindowEntries = 2
  UsizeModulus = 8
  MaxTime = 5
INVARIANTS MirrorAgrees CoolDownRespected ProbeBudget
PROPERTIES SlotsFreeAtHalfOpen AtomicBreaker
