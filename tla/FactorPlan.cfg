SPECIFICATION FairSpec
CONSTANTS
  NumVariables = 5
  Dimension <- FiveDimensions
  SizeMax = 36
  MaxEntries = 18
  MaxFactors = 5
  Graphs <- SomeGraphs
INVARIANTS QueueCurrent PlanIsForest WorkspaceHolds
PROPERTIES ImplementsVariableElimination CompilationEnds
CHECK_DEADLOCK FALSE
