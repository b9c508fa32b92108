CONSTANTS
  NumSources = 2
  NumSteps = 3
  Values = {0, 1}
  MemoryFails = TRUE
  Sessions <- BrokerSessions
  MaxRebinds = 1
  MaxWorkspaces = 1
  Chains <- MCChains
  Replacements <- MCReplacements
  CostTop = 127
  MaxVersions = 3
SPECIFICATION EverythingSpec
INVARIANTS
  ReusesExactly
  SessionsExact
  VersionsExact
PROPERTY
  ImplementsDirectEvaluation
