\* Three ranks, two rollouts per prompt, three signatures: buckets of every size
\* from 0 to 6, so full waves, remainders of 1 and 2, and cursors that wrap.
\* A schedule is returned once; a stream ends after its last epoch or when its
\* worker fails.
SPECIFICATION EitherSpec
CONSTANTS
  W = 3
  G = 2
  Signatures = {"t", "ti", "tit"}
  Datasets = {"a", "b"}
  MaxTokens = 25
  MaxImages = 3
  MaxBuffers = 2
  Stale = 2
  Interval = 2
  Epochs = 2
  Configurations <- MCConfigurations
INVARIANTS
  NeverRaises
  RunningBalance
  NoDoubleReplay
  PacksExact
PROPERTIES
  StreamFlows
CHECK_DEADLOCK FALSE
