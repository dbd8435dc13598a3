SPECIFICATION Spec
CONSTANTS
  Node = {p, n1, n2, n3, n4}
  Pool = p
  None = None
  MaxOpen = 2
  Savepoints = TRUE
  Thread = {g}
  OuterUse = TRUE
  Panics = FALSE
SYMMETRY Symmetry
CHECK_DEADLOCK FALSE
INVARIANTS FailedIsGone ConnectionsReturned
