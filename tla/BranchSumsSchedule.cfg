SPECIFICATION SumsSpec
CONSTANTS
  N = 3
  None = None
  Circuits <- OneRotation
  Limits <- OneLimit
  BasisQueries <- MCBasisQueries
  Parts <- MCParts
  Observables <- MCObservables
  Preparations <- MCPreparations
  Inputs <- MCInputs
  Retained <- MCRetained
  Clients = {c1, c2}
  SlotChoices <- OneSlot
  Queries <- Alternating
  Settings <- MCSettings
  Points <- OnePoint
  Batches <- OneBatch
  MaxCalls = 2
  MaxBreaks = 1
  Labels <- MCLabels
  Values = {1, 3}
INVARIANT
  BalancedNoWorse
CHECK_DEADLOCK FALSE
