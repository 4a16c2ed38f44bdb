CONSTANTS
  Turns = {t1, t2}
  Clients = {c1}
  Duration = duration
  Steps = steps
  Crash = crash
  NoTurn = none
  Nothing = nothing
  Enabled <- WatcherBehaviours
  MaxAlarms = 2
  MaxRestarts = 0
SPECIFICATION Spec
SYMMETRY Symmetry
INVARIANTS TurnIsStoppable NoAbandonedLock TerminationIsTold
