CONSTANTS
  Turns = {t1, t2}
  Clients = {c1}
  Duration = duration
  Steps = steps
  Crash = crash
  NoTurn = none
  Nothing = nothing
  Enabled <- DurationBehaviours
  MaxAlarms = 1
  MaxRestarts = 0
SPECIFICATION Spec
SYMMETRY Symmetry
INVARIANTS NoZombieRun
