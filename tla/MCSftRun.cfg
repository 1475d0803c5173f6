SPECIFICATION FairSpec
CONSTANTS
  Ranks = {r1, r2}
  Rows = 9
  BatchSizes = {2, 3}
  Budgets = {5, 12}
  Modes <- SaveOrValidate
  HeldOut = 2
  MaxLaunches = 2
  MaxPowerLosses = 1
  None = None
INVARIANTS
  SamplesExact
  OptimizerFollowsWeights
  CommittedIsWhole
PROPERTIES
  LaunchEnds
CHECK_DEADLOCK FALSE
