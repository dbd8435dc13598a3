SPECIFICATION Spec
CONSTANTS
  Goroutine = {g, h}
  None = None
  Model <- MCModel
  Table <- MCTable
  Struct <- MCStruct
  Opts <- MCOpts
  ID <- MCID
  Path <- MCPath
SYMMETRY Symmetry
CHECK_DEADLOCK FALSE
INVARIANTS TypeOK Complete Repeatable KeysKnown Scannable
