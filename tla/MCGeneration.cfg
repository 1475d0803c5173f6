CONSTANTS
  Rows = 1
  Columns = 2
  MaxLength = 12
  MaxImages = 2
  Steps = 3
  Microbatch = 2
  Prompts <- MCPrompts
  MaxNewTokens = 2
  MaxThink = 2
  Pictures = 2
  Denoisings = 2
  Scales <- MCScales
  Calls = 2
SPECIFICATION EitherSpec
INVARIANTS
  CachesArePrefills
  ReplayMatchesRollout
  StaysInContext
  BranchesAligned
CHECK_DEADLOCK FALSE
