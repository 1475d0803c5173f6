\* A batch ends in success or failure; a rank that fails alone stops it.
SPECIFICATION FairSpec
CONSTANTS
  W = 3
  G = 2
  Clients = 2
  Updates = 2
  OffloadFrom = 2
  Batches <- MCBatches
INVARIANTS
  TracesWhereReplayed
  BudgetsAgree
PROPERTIES
  BatchEnds
CHECK_DEADLOCK FALSE
