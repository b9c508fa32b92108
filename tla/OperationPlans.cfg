SPECIFICATION Spec
CONSTANTS
  Sources <- SomePlans
  NumQubits = 3
  MaxAngle = 2
  Pieces <- TwoPieces
  RegisterOf <- TwoRegisters
  CellsOf <- OneCell
  ComponentOf <- TwoComponents
  Workers = {w1, w2}
  None = None
SYMMETRY AnyWorker
INVARIANTS
  PlanMeansSource
  ReportIsTrue
CHECK_DEADLOCK FALSE
