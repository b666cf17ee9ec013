SPECIFICATION Spec
CONSTANTS
  DEPTH = 3
  WORDS = 4
  ALMOST_FULL_COUNT = 2
  d1 = d1
  d2 = d2
  Data <- MCData
  X = X
SYMMETRY Symmetric
INVARIANTS TypeOK Occupancy ReadAhead
PROPERTY QueueSpec
