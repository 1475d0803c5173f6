\* Every input is one state; nothing follows it.
SPECIFICATION Spec
INVARIANTS
  GroupsPartition
  ShardsMeet
  TokensReturn
  LayersAgree
  ObjectiveExact
  BatchesExact
  TrainedAsServed
  TransferFaithful
  ConversionFaithful
CHECK_DEADLOCK FALSE
