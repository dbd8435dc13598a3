SPECIFICATION FairSpec
CONSTANTS
  Node = {p, n1, n2, n3}
  Pool = p
  None = None
  MaxOpen = 1
  Savepoints = TRUE
  Thread = {g, h}
  OuterUse = FALSE
  Panics = FALSE

CHECK_DEADLOCK FALSE
PROPERTIES EveryCallReturns
