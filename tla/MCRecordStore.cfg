CONSTANTS
  Kinds = {"vocab", "draft"}
  Workers = {w0, w1}
  Caller = caller
  Ids <- MCIds
  Inputs <- MCInputs
  CacheSlots = 2
  MaxLookups = 3
  MayFail = TRUE
SPECIFICATION LiveSpec
INVARIANTS StoreTypeOK WorkIsLive
PROPERTIES LookupIsChecked LookupsReturn
CHECK_DEADLOCK FALSE
