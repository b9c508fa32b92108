SPECIFICATION Spec
CONSTANTS
  Rows = {r1, r2}
  MaxRows = 2
  Closures = {narrow, wide}
  Handles = {h0, h1, h2, h3, h4, h5}
  State = h0
  MaxDone = 3
  None = None
SYMMETRY OtherHandles
INVARIANTS
  HandlesOwned
  GradientOfObserved
PROPERTIES
  ImplementsTransactions
CHECK_DEADLOCK FALSE
