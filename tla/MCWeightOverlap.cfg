\* Training ends after the last update.
SPECIFICATION FairSpec
CONSTANTS
  Processes = {p1, p2}
  Blocks = 4
  Width = 2
  Launch = 2
  Owners = 3
  Closures = 2
  QueueLength = 1
  Updates = 2
  Configurations <- MCConfigurations
INVARIANTS
  GatheredInTime
  BroadcastsMatch
PROPERTIES
  UpdatesEnd
CHECK_DEADLOCK FALSE
