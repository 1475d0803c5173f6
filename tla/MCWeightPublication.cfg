\* Two replicas, two runs of a plan with two publications, one relaunch.  No
\* symmetry: the run checks liveness too.
SPECIFICATION FairSpec
CONSTANTS
  Replicas = {r1, r2}
  LastPolicy = 2
  MaxRuns = 2
  MaxRelaunches = 1
  None = None
  Torn = Torn
INVARIANTS
  NoMixedServing
  OnPolicy
PROPERTIES
  ImplementsServingSet
  PublicationEnds
\* The system stops when the bounds on runs and relaunches are reached.
CHECK_DEADLOCK FALSE
