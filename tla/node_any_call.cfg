SPECIFICATION Spec
CONSTANTS
  Node = {p, n1, n2, n3}
  Pool = p
  None = None
  MaxOpen = 2
  Savepoints = TRUE
  Reuse = TRUE
  Toggle = FALSE
SYMMETRY Clones
CHECK_DEADLOCK FALSE
INVARIANTS TypeOK RolledBackIsGone
PROPERTIES OnlyOwnerPublishes RollbackDropsWrites
