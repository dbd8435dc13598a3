SPECIFICATION Spec
CONSTANTS
  None = None
  Model <- MCModel
  Table <- MCTable
  Struct <- MCStruct
  Opts <- MCOpts
  ID <- MCID
  Path <- MCPath
  Row <- MCRow
  Of <- MCOf
  Value <- MCValue
  Roots <- MCRoots
  Asks <- MCAsks
  MaxCalls = 2
CHECK_DEADLOCK FALSE
INVARIANTS TypeOK RightOwner NothingLost OnceUnlessShared
