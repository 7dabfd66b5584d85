CONSTANTS
  MAX_DRIFT_MS = 1
  MaxCounter = 4
  Actor = 5
  MaxRestarts = 1
  Walls <- MCWalls
  Remotes <- MCRemotes
SPECIFICATION Spec
INVARIANTS TypeOK PastEverySeen WithinDrift
PROPERTIES NeverBack
