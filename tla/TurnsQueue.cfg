CONSTANTS
  Turns = {t1, t2, t3}
  Clients = {c1, c2}
  Duration = duration
  Steps = steps
  Crash = crash
  NoTurn = none
  Nothing = nothing
  Enabled <- QueueBehaviours
  MaxAlarms = 1
  MaxRestarts = 0
SPECIFICATION Spec
SYMMETRY Symmetry
INVARIANTS TypeOK SerialTurns NoStrandedQueue ZombieWasCutOff LostWasCutOff
PROPERTIES ImplementsTurnQueue
