SPECIFICATION Spec
CONSTANTS
  Node = {p, n1, n2, n3}
  Pool = p
  None = None
  MaxOpen = 1
  Savepoints = FALSE
  Thread = {g}
  OuterUse = FALSE
  Panics = FALSE

CHECK_DEADLOCK FALSE
INVARIANTS FailedIsGone
