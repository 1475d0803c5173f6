\* Checkpoints without a generation branch among the inputs of MCLayouts.
SPECIFICATION Spec
INVARIANT
  UOnlyConverted
CHECK_DEADLOCK FALSE
