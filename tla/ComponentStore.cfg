SPECIFICATION Spec
CONSTANTS
  NumQubits = 5
  Configs <- WideAndNarrow
  MaxKey = 5
  DirectGates = TRUE
INVARIANTS ValidUnlessRejected DamageConfined
PROPERTY ImplementsOrderedPartition
CHECK_DEADLOCK FALSE
