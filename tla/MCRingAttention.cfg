\* When every rank is done the module stutters, so deadlock is checked.
SPECIFICATION FairSpec
CONSTANT Shapes <- Groupings
INVARIANT
  RingExact
PROPERTY
  RingsComplete
