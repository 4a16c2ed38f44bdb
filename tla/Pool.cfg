SPECIFICATION FairSpec
CONSTANTS
  s1 = s1
  s2 = s2
  w1 = w1
  w2 = w2
  w3 = w3
  k1 = k1
  k2 = k2
  t1 = t1
  t2 = t2
  None = None
  Sessions <- OneSession
  Workers <- TwoWorkers
  Kids <- TwoKids
  Foreign <- OneForeign
  Stops <- OneStop
  MaxTurns = 2
  Profiles <- LifeAndReap
INVARIANTS TypeOK OrphanWasLetGo DeliveredIsVetted CrashMeansCrash InnocentSpared
PROPERTIES CrashIsTold StopLeavesNothing
CHECK_DEADLOCK FALSE
