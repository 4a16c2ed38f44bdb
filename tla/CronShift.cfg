SPECIFICATION Spec
CONSTANTS
  c1 = c1
  leap = leap
  daily = daily
  never = never
  nine = nine
  None = None
  FirstYear = 2028
  LastYear = 2033
  Crons <- OneCron
  MaxDispatches = 2
  Exprs <- OnlyNine
  Fields <- MCFields
  Instants <- SpringForward
  Shift <- SpringShift
  Before = 60
  After = 120
  MaxEdits = 1
  MaxRunNow = 1
  MaxFaults = 1
  Profiles <- Undisturbed
INVARIANTS FiresInLocalTime
CHECK_DEADLOCK FALSE
