CONSTANTS
  Turns = {t1, t2}
  Clients = {c1}
  Duration = duration
  Steps = steps
  Crash = crash
  NoTurn = none
  Nothing = nothing
  Enabled <- RecoveryBehaviours
  MaxAlarms = 1
  MaxRestarts = 1
SPECIFICATION FairSpec
PROPERTIES CrashSettlesRun RunningTurnEnds RequestsAnswered
