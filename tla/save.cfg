SPECIFICATION Spec
CONSTANTS
  Instance = {i, j}
  None = None
  MaxId = 2
  MaxNow = 3
SYMMETRY Symmetry
CHECK_DEADLOCK FALSE
INVARIANTS TypeOK NilMeansStored OneRowPerInstance KeyExplained
