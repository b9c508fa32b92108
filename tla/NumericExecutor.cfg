SPECIFICATION FairSpec
CONSTANTS
  Callers = {c1, c2}
  NumHelpers = 2
  MaxTasks = 3
  MaxCalls = 2
  Nobody = Nobody
  Owner = Owner
INVARIANTS ContextAlive CleanShutdown
PROPERTIES ImplementsParallelFor OperationReturns ShutdownCompletes
