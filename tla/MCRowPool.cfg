SPECIFICATION LiveSpec
CONSTANTS
  Callers = {c0, c1}
  Workers = {w0, w1}
  Inputs <- MCInputs
  Rows = 5
  Owned <- MCOwned
  Sets = 1
  Ways = 2
  SerialBelow = 2
  MaxLookups = 2
  NoJob = NoJob
  Bad = TRUE
INVARIANTS
  PoolTypeOK
  WorkIsLive
PROPERTIES
  LookupIsExact
  LookupReturns
CHECK_DEADLOCK FALSE
