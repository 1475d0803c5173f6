\* The next trainer after a partial commit was re-paused, without a relaunch.
SPECIFICATION Spec
CONSTANTS
  Replicas = {r1, r2}
  LastPolicy = 2
  MaxRuns = 2
  MaxRelaunches = 0
  None = None
  Torn = Torn
INVARIANTS
  NextRecoveryPublishes
CHECK_DEADLOCK FALSE
