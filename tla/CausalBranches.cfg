SPECIFICATION Spec
VIEW View
CONSTANTS
  Handles = {h1, h2, h3}
  Workers = {w1, w2}
  NumPatches = 2
  Registers = {r1, r2, r3, r4, r5}
  Storages = {s1, s2, s3, s4, s5, s6, s7, s8}
  MaxBatches = 1
  None = None
INVARIANTS NoTornRead PacketsFresh BatchReports
PROPERTY ImplementsIndependentStates
