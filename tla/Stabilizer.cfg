SPECIFICATION TableauSpec
CONSTANTS
  N = 2
  Batches <- MCBatches
INVARIANTS
  TableauValid
  TableauExact
