SPECIFICATION Spec
CONSTANTS
  Node = {p, n1, n2}
  Pool = p
  None = None
  MaxOpen = 2
  Savepoints = TRUE
  Reuse = FALSE
  Toggle = TRUE
SYMMETRY Clones
CHECK_DEADLOCK FALSE
INVARIANTS OwnerHolds
PROPERTIES OnlyOwnerPublishes
