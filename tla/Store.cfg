SPECIFICATION FairSpec
CONSTANTS
  r1 = r1
  r2 = r2
  c1 = c1
  c2 = c2
  Runs <- TwoRuns
  Clients <- TwoClients
  NoRun = NoRun
  Nobody = Nobody
  MaxCalls = 2
  MaxFaults = 1
INVARIANTS RefsResolve LiveTurnKept LeftoversAreKnown ExportFirst
PROPERTIES DanglingIsCleared
CHECK_DEADLOCK FALSE
