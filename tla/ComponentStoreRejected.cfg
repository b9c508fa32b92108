SPECIFICATION Spec
CONSTANTS
  NumQubits = 3
  Configs <- Narrow
  MaxKey = 4
  DirectGates = TRUE
INVARIANT ValidAfterEveryTransition
