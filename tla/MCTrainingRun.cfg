\* Three ranks; three batches, saved after the second and the last; two starts.
\* No symmetry: the run checks liveness too.
SPECIFICATION FairSpec
CONSTANTS
  Ranks = {p, r1, r2}
  Primary = p
  Batches = 3
  SaveEvery = 2
  MaxRuns = 2
INVARIANTS
  CommittedIsWhole
  CheckpointWasServed
  ArtifactsInUse
  FinalStateCloses
  Lockstep
PROPERTIES
  RunEnds
\* The system stops when the directory is not started again.
CHECK_DEADLOCK FALSE
