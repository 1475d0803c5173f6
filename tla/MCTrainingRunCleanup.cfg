\* One batch in which one rank fails alone.
SPECIFICATION Spec
CONSTANTS
  Ranks = {p, r1}
  Primary = p
  Batches = 1
  SaveEvery = 1
  MaxRuns = 1
INVARIANTS
  NoUnilateralCleanup
CHECK_DEADLOCK FALSE
