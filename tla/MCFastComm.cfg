SPECIFICATION LiveSpec
CONSTANTS
  Channels = {0}
  Blocks = {b0, b1}
  Slots = 4
  MaxSeq = 6
  MayFail = TRUE
INVARIANTS
  CommTypeOK
  AheadOfProxy
  SlotsNeverLap
PROPERTIES
  ExchangeIsExact
  OperationsEnd
CHECK_DEADLOCK FALSE
