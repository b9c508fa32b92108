SPECIFICATION SumsSpec
CONSTANTS
  N = 3
  None = None
  Circuits <- MCCircuits
  Limits <- MCLimits
  BasisQueries <- MCBasisQueries
  Parts <- MCParts
  Observables <- MCObservables
  Preparations <- MCPreparations
  Inputs <- MCInputs
  Retained <- MCRetained
  Clients = {c1, c2}
  SlotChoices <- MCSlotChoices
  Queries <- MCQueries
  Settings <- MCSettings
  Points <- MCPoints
  Batches <- MCBatches
  MaxCalls = 2
  MaxBreaks = 1
  Labels <- MCLabels
  Values = {1, 3}
INVARIANTS
  BrokerExact
  RepresentationsExact
  AdaptiveExact
  GradientsExact
CHECK_DEADLOCK FALSE
