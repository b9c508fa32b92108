SPECIFICATION ObjectsSpec
CONSTANTS
  Threads = {t1, t2}
  Registers = {r1, r2}
  Plans = {p1, p2, p3}
  MaxChanges = 2
  None = None
  Width = 3
  Requests <- ThreeQubits
  Values <- RingValues
  Counts = {0, 3}
  MaxUses = 3
  MaxTurns = 4
  MaxSymbols = 4
  MaxAtoms = 3
  MaxRelations = 3
  ConstraintCaps = {2, 3}
  MaxClosureWords = 8
  WordBits = 2
  Displacements = {1}
  MaxFacts = 2
  MaxRules = 3
  MaxPremiseTerms = 4
  Rules <- RulesOfThree
  MaxPairs = 4
  MaxDifferences = 3
  Universes <- FoldsOfTwo
  IndexBits = 3
  MaxCode = 60
SYMMETRY Interchangeable
INVARIANTS
  PacketsFresh
  PlansOwned
  ClassesExact
  OrderExact
  AffineExact
  LogicExact
  FoldsExact
  PlansExact
