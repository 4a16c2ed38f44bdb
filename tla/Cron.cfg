SPECIFICATION FairSpec
CONSTANTS
  c1 = c1
  leap = leap
  daily = daily
  never = never
  nine = nine
  None = None
  FirstYear = 2028
  LastYear = 2033
  Crons <- OneCron
  MaxDispatches = 2
  Exprs <- ThreeExprs
  Fields <- MCFields
  Instants <- LeapDay
  Shift = 0
  Before = 60
  After = 60
  MaxEdits = 1
  MaxRunNow = 1
  MaxFaults = 1
  Profiles <- Disturbed
INVARIANTS OneRunUnlessReopened NextFitsExpr
PROPERTIES TriggersMoveOn DueOrUnwoken GuardReleased
CHECK_DEADLOCK FALSE
