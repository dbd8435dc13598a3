SPECIFICATION Spec
CONSTANTS
  Caller = {f, g}
  MaxOpen = 2
  MaxRows = 2
INVARIANTS NilIsComplete
