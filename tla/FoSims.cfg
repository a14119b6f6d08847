CONSTANTS
  Sims = {t1, t2}
  MayFail = TRUE
  MaxCrashes = 1
SPECIFICATION FairSpec
INVARIANTS DownIsMarked FileIsRemoved ReleaseUnderWay
PROPERTIES ReleaseEndsSimulation TimeoutEndsSimulation RequestBringsDown
