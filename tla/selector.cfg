SPECIFICATION FairSpec
CONSTANTS
  d1 = d1
  d2 = d2
  d3 = d3
  Caller = {f, g}
  Driver = {d1, d2, d3}
  None = None
  Name <- MCName
  Lower <- MCLower
  Selectors <- MCSelectors
  RetryLists <- MCRetryLists
INVARIANTS TypeOK NoLeakedDriver NoStaleDriver
PROPERTIES NeverReplaced EveryCallReturns
